---- MODULE Spec2Model ----
(***************************************************************************)
(* Verification model of the codex CLI glue code:                          *)
(*   - the macOS desktop-app locate-or-install flow (cli/desktop_app/mac.rs)*)
(*   - the feature-flag registry and its config loading (core/features.rs)  *)
(*   - the ghost-snapshot task (core/tasks/ghost_snapshot.rs)               *)
(*   - the login-family command handlers (cli/login.rs)                     *)
(*   - the command-line dispatch of cli_main (cli/main.rs, tui/cli.rs)      *)
(*   - pure helpers: key masking, mount point parsing, exec resume          *)
(*     arguments, the last-message file, the model presets                  *)
(* Each component is a state machine of its own with its own specification; *)
(* the variables of the other components stay at their idle values.         *)
(***************************************************************************)
EXTENDS Naturals, Integers, Sequences, FiniteSets, TLC

VARIABLES
    \* ---- desktop-app flow (mac.rs) ----
    homeSet,         \* std::env::var_os("HOME") is Some
    appIsDir,        \* candidate Codex.app path -> is_dir() when the flow starts
    mkdirOk,         \* Applications dir -> create_dir_all succeeds
    dittoOut,        \* Applications dir -> how `ditto` into it ends
    mac_pc,          \* position inside run_mac_app_open_or_install
    cmds,            \* the external commands issued so far, in order
    mount_point,     \* the mount point mount_dmg returned, or NoPath
    install_called,  \* install_codex_app_bundle has been entered
    dir_idx,         \* index of the candidate dir the install loop is at
    install_result,  \* value of the `result` block (mac.rs:86-91)
    download_result, \* value download_and_install_codex_to_user_applications returned
    run_result,      \* value run_mac_app_open_or_install returned
    warnings,        \* the "warning" lines printed to stderr, in order
    \* ---- feature flags (features.rs) ----
    target_windows,  \* the build target is Windows (#[cfg(windows)])
    features,        \* the Features instance: [enabled, legacy_usages]
    f_phase,         \* "setup", then "called" once the observed call was made
    f_last,          \* the observed call: its inputs, the state before, its result
    c_in,            \* the configuration handed to Features::from_config
    \* ---- ghost-snapshot task (ghost_snapshot.rs) ----
    g_warnings_enabled, \* !ctx.ghost_snapshot.disable_warnings
    g_pc,            \* position of the spawned snapshot task
    g_warn_pc,       \* position of the timeout-warning task
    g_blocking,      \* the spawn_blocking git snapshot: not started, running, or its outcome
    g_report_left,   \* messages of format_snapshot_warnings still to send
    g_cancel,        \* the cancellation token has fired
    g_timer,         \* SNAPSHOT_WARNING_THRESHOLD has elapsed
    g_done_sent,     \* snapshot_done_tx.send(()) has been called
    g_cancelled,     \* the value of `cancelled` (line 76), None until select! completes
    g_events,        \* what the session was sent, in order
    g_gate,          \* number of tool_call_gate.mark_ready(token) calls
    \* ---- login-family handlers (login.rs) ----
    l_handler,       \* which handler runs
    l_overrides_ok,  \* cli_config_overrides.parse_overrides() succeeds
    l_config_ok,     \* Config::load_with_cli_overrides succeeds
    l_forced,        \* config.forced_login_method
    l_pc,            \* "start", "loaded", "exited"
    l_op,            \* how the handler's operation ended, "" before it ran
    l_exit,          \* the status given to std::process::exit, Running before
    \* ---- run_login_with_device_code_fallback_to_browser (login.rs) ----
    fb_issuer_base_url, \* the issuer_base_url argument (Option)
    fb_client_id,    \* the client_id argument (Option)
    fb_opts,         \* the ServerOptions built from them, None before
    fb_device,       \* result of run_device_code_login, "" before it ran
    fb_server,       \* run_login_server: not called, started, or failed to start
    \* ---- cli_main (cli/src/main.rs) ----
    cli_args,        \* the MultitoolCli that MultitoolCli::parse() returned
    cli_stdin,       \* what read_api_key_from_stdin finds on standard input
    cli_pc,          \* position in cli_main
    cli_root,        \* root_config_overrides.raw_overrides
    cli_interactive, \* the TuiCli `interactive`
    cli_sub,         \* raw_overrides of the subcommand's own config_overrides
    cli_out,         \* what cli_main ended in: a handler call, the TUI, an exit, an error
    \* ---- one call of a pure function ----
    fn_in,           \* its argument
    fn_pc,           \* "idle", "called", "returned"
    fn_out           \* what it returned (or that it panicked), None before

macVars == <<homeSet, appIsDir, mkdirOk, dittoOut, mac_pc, cmds, mount_point,
             install_called, dir_idx, install_result, download_result,
             run_result, warnings>>

featVars == <<target_windows, features, f_phase, f_last, c_in>>

ghostVars == <<g_warnings_enabled, g_pc, g_warn_pc, g_blocking, g_report_left,
               g_cancel, g_timer, g_done_sent, g_cancelled, g_events, g_gate>>

loginVars == <<l_handler, l_overrides_ok, l_config_ok, l_forced, l_pc, l_op, l_exit>>

fbVars == <<fb_issuer_base_url, fb_client_id, fb_opts, fb_device, fb_server>>

cliVars == <<cli_args, cli_stdin, cli_pc, cli_root, cli_interactive, cli_sub, cli_out>>

\* the components added after the login handlers
fnVars == <<fn_in, fn_pc, fn_out>>

laterVars == <<fbVars, cliVars, fnVars>>

vars == <<macVars, featVars, ghostVars, loginVars, laterVars>>

\* what a step of one component leaves alone
notMac == <<featVars, ghostVars, loginVars, laterVars>>
notFeat == <<macVars, ghostVars, loginVars, laterVars>>
notGhost == <<macVars, featVars, loginVars, laterVars>>
notLogin == <<macVars, featVars, ghostVars, laterVars>>
notFallback == <<macVars, featVars, ghostVars, cliVars, fnVars>>
notCli == <<macVars, featVars, ghostVars, loginVars, fbVars, fnVars>>
notFn == <<macVars, featVars, ghostVars, loginVars, fbVars, cliVars>>

----------------------------------------------------------------------------
(* Results and command outcomes                                             *)

\* How a spawned external command can end: Command::status()/output() fails
\* (the process could not be started), or the process exits with or without
\* success.
CmdOutcome == {"ok", "exit_fail", "spawn_fail"}

NoPath == "none"

\* anyhow::Result values.  An error carries the message it was built from
\* (msg), the command that message names (cmd, "" when it names none) and
\* whether the message includes the process exit status (status).
\* msg is the context chain, outermost first.
Ok(v) == [ok |-> TRUE, val |-> v, msg |-> <<>>, cmd |-> "", status |-> FALSE]
Err(m, c, s) == [ok |-> FALSE, val |-> NoPath, msg |-> <<m>>, cmd |-> c, status |-> s]
Pending == [ok |-> FALSE, val |-> NoPath, msg |-> <<"pending">>, cmd |-> "", status |-> FALSE]

\* anyhow::Context::context: wraps an error, leaves Ok alone
Context(c, r) == IF r.ok THEN r ELSE [r EXCEPT !.msg = <<c>> \o @]

Cmd(c, a, o) == [cmd |-> c, arg |-> a, out |-> o]

CmdCount(c) == Cardinality({i \in DOMAIN cmds : cmds[i].cmd = c})

----------------------------------------------------------------------------
(* mac.rs: pure helpers                                                     *)

AppsDir == "/Applications"
HomeAppsDir == "$HOME/Applications"
AllAppsDirs == <<AppsDir, HomeAppsDir>>

\* applications_dir.join("Codex.app")
CodexAppIn(dir) == IF dir = AppsDir THEN "/Applications/Codex.app"
                   ELSE "$HOME/Applications/Codex.app"

AllAppPaths == {CodexAppIn(AllAppsDirs[i]) : i \in DOMAIN AllAppsDirs}

candidate_codex_app_paths ==
    IF homeSet THEN <<CodexAppIn(AppsDir), CodexAppIn(HomeAppsDir)>>
    ELSE <<CodexAppIn(AppsDir)>>

find_existing_codex_app_path_last ==
    LET c == candidate_codex_app_paths
        hit == {i \in DOMAIN c : appIsDir[c[i]]}
    IN IF hit = {} THEN NoPath
       ELSE c[CHOOSE i \in hit : \A j \in hit : j <= i]

\* candidate_codex_app_paths().into_iter().find(|c| c.is_dir())
find_existing_codex_app_path ==
    LET c == candidate_codex_app_paths
        hit == {i \in DOMAIN c : appIsDir[c[i]]}
    IN IF hit = {} THEN NoPath
       ELSE c[CHOOSE i \in hit : \A j \in hit : i <= j]

\* user_applications_dir()? inside candidate_applications_dirs
candidate_applications_dirs ==
    IF homeSet THEN Ok(AllAppsDirs)
    ELSE [Err("HOME not set", "", FALSE) EXCEPT !.val = <<>>]

download_dmg_ignores_exit(out) ==
    IF out = "spawn_fail" THEN Err("failed to invoke curl", "curl", FALSE)
    ELSE Ok("Codex.dmg")

download_dmg(out) ==
    CASE out = "spawn_fail" -> Err("failed to invoke curl", "curl", FALSE)
      [] out = "ok"         -> Ok("Codex.dmg")
      [] OTHER              -> Err("curl download failed", "curl", TRUE)

\* mount_dmg without the check of the exit status
mount_dmg_ignoring_exit(out, parsed) ==
    CASE out = "spawn_fail" -> Err("failed to invoke hdiutil attach", "hdiutil attach", FALSE)
      [] parsed = NoPath    -> Err("failed to parse mount point from hdiutil output", "hdiutil", FALSE)
      [] OTHER              -> Ok(parsed)

\* parsed: the value of parse_hdiutil_attach_mount_point(stdout), NoPath for None
mount_dmg(out, parsed) ==
    CASE out = "spawn_fail" -> Err("failed to invoke hdiutil attach", "hdiutil attach", FALSE)
      [] out = "exit_fail"  -> Err("hdiutil attach failed", "hdiutil attach", TRUE)
      [] parsed = NoPath    -> Err("failed to parse mount point from hdiutil output", "hdiutil", FALSE)
      [] OTHER              -> Ok(parsed)

detach_dmg(out) ==
    CASE out = "spawn_fail" -> Err("failed to invoke hdiutil detach", "hdiutil detach", FALSE)
      [] out = "ok"         -> Ok("")
      [] OTHER              -> Err("hdiutil detach failed", "hdiutil detach", TRUE)

copy_app_bundle(out) ==
    CASE out = "spawn_fail" -> Err("failed to invoke ditto", "ditto", FALSE)
      [] out = "ok"         -> Ok("")
      [] OTHER              -> Err("ditto copy failed", "ditto", TRUE)

open_codex_app(out) ==
    CASE out = "spawn_fail" -> Err("failed to invoke open", "open", FALSE)
      [] out = "ok"         -> Ok("")
      [] OTHER              -> Err("open exited", "open", TRUE)

\* find_codex_app_in_mount: the bundle is found directly or by scanning, or
\* read_dir / an entry fails, or no .app directory is in the mount.
FindInMountOutcome == {"direct", "scanned", "read_dir_err", "entry_err", "no_app"}

find_codex_app_in_mount(how) ==
    CASE how = "direct"       -> Ok("/Volumes/Codex/Codex.app")
      [] how = "scanned"      -> Ok("/Volumes/Codex/Other.app")
      [] how = "read_dir_err" -> Err("failed to read mount dir", "", FALSE)
      [] how = "entry_err"    -> Err("failed to read mount dir entry", "", FALSE)
      [] OTHER                -> Err("no .app bundle in mount", "", FALSE)

\* mac.rs:86-93: the locate-and-install block is awaited into `result`, and
\* whatever it holds the next thing the function does is detach_dmg.
after_result_block_propagating(result) == IF result.ok THEN "detach" ELSE "done"

after_result_block(result) == "detach"

\* mac.rs:93-101: the detach result only feeds a warning; `result` is returned.
returned_after_detach_propagating(result, detach_result) ==
    IF detach_result.ok THEN result ELSE detach_result

returned_after_detach(result, detach_result) == result

----------------------------------------------------------------------------
(* mac.rs: the flow, one action per external command (await point)          *)

MacInit ==
    /\ homeSet \in BOOLEAN
    /\ appIsDir \in [AllAppPaths -> BOOLEAN]
    /\ mkdirOk \in [{AppsDir, HomeAppsDir} -> BOOLEAN]
    /\ dittoOut \in [{AppsDir, HomeAppsDir} -> CmdOutcome]
    /\ mac_pc = "start"
    /\ cmds = <<>>
    /\ mount_point = NoPath
    /\ install_called = FALSE
    /\ dir_idx = 0
    /\ install_result = Pending
    /\ download_result = Pending
    /\ run_result = Pending
    /\ warnings = <<>>

macEnv == <<homeSet, appIsDir, mkdirOk, dittoOut>>

\* run_mac_app_open_or_install, lines 11-19: look for an installed app
FindExisting ==
    /\ UNCHANGED notMac
    /\ mac_pc = "start"
    /\ mac_pc' = IF find_existing_codex_app_path # NoPath
                 THEN "open_existing" ELSE "tempdir"
    /\ UNCHANGED <<macEnv, cmds, mount_point, install_called, dir_idx,
                   install_result, download_result, run_result, warnings>>

\* lines 16-17: open_codex_app(&app_path, &workspace).await?; return Ok(())
OpenExisting ==
    /\ UNCHANGED notMac
    /\ mac_pc = "open_existing"
    /\ \E out \in CmdOutcome :
         /\ cmds' = Append(cmds, Cmd("open", find_existing_codex_app_path, out))
         /\ run_result' = open_codex_app(out)
    /\ mac_pc' = "done"
    /\ UNCHANGED <<macEnv, mount_point, install_called, dir_idx, install_result,
                   download_result, warnings>>

\* download_and_install_codex_to_user_applications, lines 70-75
CreateTempDir ==
    /\ UNCHANGED notMac
    /\ mac_pc = "tempdir"
    /\ \E ok \in BOOLEAN :
         IF ok
         THEN /\ mac_pc' = "curl"
              /\ UNCHANGED <<download_result, run_result>>
         ELSE LET r == Err("failed to create temp dir", "", FALSE) IN
              /\ download_result' = r
              /\ run_result' = Context("download/install failed", r)
              /\ mac_pc' = "done"
    /\ UNCHANGED <<macEnv, cmds, mount_point, install_called, dir_idx,
                   install_result, warnings>>

\* line 78: download_dmg(dmg_url, &dmg_path).await?
DownloadDmg ==
    /\ UNCHANGED notMac
    /\ mac_pc = "curl"
    /\ \E out \in CmdOutcome :
         LET r == download_dmg(out) IN
         /\ cmds' = Append(cmds, Cmd("curl", "Codex.dmg", out))
         /\ IF r.ok
            THEN /\ mac_pc' = "attach"
                 /\ UNCHANGED <<download_result, run_result>>
            ELSE /\ download_result' = r
                 /\ run_result' = Context("download/install failed", r)
                 /\ mac_pc' = "done"
    /\ UNCHANGED <<macEnv, mount_point, install_called, dir_idx, install_result,
                   warnings>>

\* line 81: mount_dmg(&dmg_path).await?
MountDmg ==
    /\ UNCHANGED notMac
    /\ mac_pc = "attach"
    /\ \E out \in CmdOutcome, parsed \in {NoPath, "/Volumes/Codex"} :
         LET r == mount_dmg(out, parsed) IN
         /\ cmds' = Append(cmds, Cmd("hdiutil attach", "Codex.dmg", out))
         /\ IF r.ok
            THEN /\ mount_point' = r.val
                 /\ mac_pc' = "locate"
                 /\ UNCHANGED <<download_result, run_result>>
            ELSE /\ download_result' = r
                 /\ run_result' = Context("download/install failed", r)
                 /\ mac_pc' = "done"
                 /\ UNCHANGED mount_point
    /\ UNCHANGED <<macEnv, install_called, dir_idx, install_result, warnings>>

\* lines 86-89 up to the first await of install_codex_app_bundle:
\* find_codex_app_in_mount(..).context(..)?, then candidate_applications_dirs()?
LocateApp ==
    /\ UNCHANGED notMac
    /\ mac_pc = "locate"
    /\ \E how \in FindInMountOutcome :
         LET found == Context("Codex.app not found in mounted DMG",
                              find_codex_app_in_mount(how))
             dirs == candidate_applications_dirs
         IN IF ~found.ok
            THEN /\ install_result' = found
                 /\ mac_pc' = after_result_block(found)
                 /\ UNCHANGED <<install_called, dir_idx>>
            ELSE /\ install_called' = TRUE
                 /\ IF dirs.ok
                    THEN /\ dir_idx' = 1
                         /\ mac_pc' = "install"
                         /\ UNCHANGED install_result
                    ELSE /\ install_result' = [dirs EXCEPT !.val = NoPath]
                         /\ mac_pc' = after_result_block(dirs)
                         /\ UNCHANGED dir_idx
    /\ UNCHANGED <<macEnv, cmds, mount_point, download_result, run_result, warnings>>

\* install_codex_app_bundle, one iteration of the loop (lines 105-131) and,
\* after the last candidate, the bail! of line 133
InstallInDir ==
    /\ UNCHANGED notMac
    /\ mac_pc = "install"
    /\ LET dirs == candidate_applications_dirs.val
           dir  == dirs[dir_idx]
           dest == CodexAppIn(dir)
       IN IF ~mkdirOk[dir]
          THEN LET r == Err("failed to create applications dir", "", FALSE) IN
               /\ install_result' = r
               /\ mac_pc' = after_result_block(r)
               /\ UNCHANGED <<cmds, warnings, dir_idx>>
          ELSE \E is_dir \in BOOLEAN :
               IF is_dir
               THEN /\ install_result' = Ok(dest)
                    /\ mac_pc' = after_result_block(Ok(dest))
                    /\ UNCHANGED <<cmds, warnings, dir_idx>>
               ELSE LET out == dittoOut[dir]
                        c   == copy_app_bundle(out)
                        bail == Err("cannot install Codex.app into any applications dir", "", FALSE)
                    IN
                    /\ cmds' = Append(cmds, Cmd("ditto", dest, out))
                    /\ IF c.ok
                       THEN /\ install_result' = Ok(dest)
                            /\ mac_pc' = after_result_block(Ok(dest))
                            /\ UNCHANGED <<warnings, dir_idx>>
                       ELSE /\ warnings' = Append(warnings, [kind |-> "install", dir |-> dir, err |-> c])
                            /\ IF dir_idx < Len(dirs)
                               THEN /\ dir_idx' = dir_idx + 1
                                    /\ UNCHANGED <<install_result, mac_pc>>
                               ELSE /\ install_result' = bail
                                    /\ mac_pc' = after_result_block(bail)
                                    /\ UNCHANGED dir_idx
    /\ UNCHANGED <<macEnv, mount_point, install_called, download_result, run_result>>

\* lines 93-101, and the `?` of line 22 when the result is an error
DetachDmg ==
    /\ UNCHANGED notMac
    /\ mac_pc = "detach"
    /\ \E out \in CmdOutcome :
         LET d == detach_dmg(out)
             r == returned_after_detach(install_result, d)
         IN
         /\ cmds' = Append(cmds, Cmd("hdiutil detach", mount_point, out))
         /\ warnings' = IF d.ok THEN warnings
                        ELSE Append(warnings, [kind |-> "detach", dir |-> mount_point, err |-> d])
         /\ download_result' = r
         /\ IF r.ok
            THEN /\ mac_pc' = "open_installed"
                 /\ UNCHANGED run_result
            ELSE /\ run_result' = Context("download/install failed", r)
                 /\ mac_pc' = "done"
    /\ UNCHANGED <<macEnv, mount_point, install_called, dir_idx, install_result>>

\* lines 27-28: open_codex_app(&installed_app, &workspace).await?; Ok(())
OpenInstalled ==
    /\ UNCHANGED notMac
    /\ mac_pc = "open_installed"
    /\ \E out \in CmdOutcome :
         /\ cmds' = Append(cmds, Cmd("open", download_result.val, out))
         /\ run_result' = open_codex_app(out)
    /\ mac_pc' = "done"
    /\ UNCHANGED <<macEnv, mount_point, install_called, dir_idx, install_result,
                   download_result, warnings>>

MacNext ==
    \/ FindExisting
    \/ OpenExisting
    \/ CreateTempDir
    \/ DownloadDmg
    \/ MountDmg
    \/ LocateApp
    \/ InstallInDir
    \/ DetachDmg
    \/ OpenInstalled

----------------------------------------------------------------------------
(* features.rs: the registry                                                *)

\* enum Feature
Feature == {"GhostCommit", "ShellTool", "UnifiedExec", "ApplyPatchFreeform",
            "WebSearchRequest", "WebSearchCached", "ExecPolicy", "WindowsSandbox",
            "WindowsSandboxElevated", "RemoteCompaction", "RemoteModels",
            "ShellSnapshot", "ChildAgentsMd", "PowershellUtf8",
            "EnableRequestCompression", "Collab", "Steer", "CollaborationModes",
            "ResponsesWebsockets"}

FeatureSpec(id, key, stage, default_enabled) ==
    [id |-> id, key |-> key, stage |-> stage, default_enabled |-> default_enabled]

\* The registry as compiled for a target that is not Windows.
FEATURES_NOT_WINDOWS ==
    << FeatureSpec("GhostCommit", "undo", "Stable", FALSE),
       FeatureSpec("ShellTool", "shell_tool", "Stable", TRUE),
       FeatureSpec("WebSearchRequest", "web_search_request", "Stable", FALSE),
       FeatureSpec("WebSearchCached", "web_search_cached", "Beta", FALSE),
       FeatureSpec("UnifiedExec", "unified_exec", "Experimental", FALSE),
       FeatureSpec("ShellSnapshot", "shell_snapshot", "Experimental", FALSE),
       FeatureSpec("ChildAgentsMd", "child_agents_md", "Beta", FALSE),
       FeatureSpec("ApplyPatchFreeform", "apply_patch_freeform", "Beta", FALSE),
       FeatureSpec("ExecPolicy", "exec_policy", "Beta", TRUE),
       FeatureSpec("WindowsSandbox", "experimental_windows_sandbox", "Beta", FALSE),
       FeatureSpec("WindowsSandboxElevated", "elevated_windows_sandbox", "Beta", FALSE),
       FeatureSpec("RemoteCompaction", "remote_compaction", "Beta", TRUE),
       FeatureSpec("RemoteModels", "remote_models", "Beta", TRUE),
       FeatureSpec("PowershellUtf8", "powershell_utf8", "Beta", FALSE),
       FeatureSpec("EnableRequestCompression", "enable_request_compression", "Beta", FALSE),
       FeatureSpec("Collab", "collab", "Experimental", FALSE),
       FeatureSpec("Steer", "steer", "Experimental", FALSE),
       FeatureSpec("CollaborationModes", "collaboration_modes", "Beta", FALSE),
       FeatureSpec("ResponsesWebsockets", "responses_websockets", "Beta", FALSE) >>

\* #[cfg(windows)] gives the powershell_utf8 entry another stage and default
FEATURES_WINDOWS ==
    [i \in DOMAIN FEATURES_NOT_WINDOWS |->
        IF FEATURES_NOT_WINDOWS[i].id = "PowershellUtf8"
        THEN FeatureSpec("PowershellUtf8", "powershell_utf8", "Experimental", TRUE)
        ELSE FEATURES_NOT_WINDOWS[i]]

\* the registry with its last entry (responses_websockets) left out
FEATURES_without_last ==
    LET all == IF target_windows THEN FEATURES_WINDOWS ELSE FEATURES_NOT_WINDOWS
    IN SubSeq(all, 1, Len(all) - 1)

\* pub const FEATURES: &[FeatureSpec]
FEATURES == IF target_windows THEN FEATURES_WINDOWS ELSE FEATURES_NOT_WINDOWS

\* what unwrap_or_else(|| unreachable!(..)) would hit
Unreachable == FeatureSpec("unreachable!", "", "", FALSE)

Min(S) == CHOOSE i \in S : \A j \in S : i <= j
Max(S) == CHOOSE i \in S : \A j \in S : j <= i

\* Feature::info: FEATURES.iter().find(|spec| spec.id == self)
info(f) ==
    LET hit == {i \in DOMAIN FEATURES : FEATURES[i].id = f}
    IN IF hit = {} THEN Unreachable ELSE FEATURES[Min(hit)]

key(f) == info(f).key

default_enabled(f) == info(f).default_enabled

None == <<>>
Some(v) == <<v>>

\* legacy::feature_for_key: the legacy alias keys and the feature each is
\* remapped to
ALIASES ==
    << [legacy_key |-> "experimental_use_unified_exec_tool", feature |-> "UnifiedExec"],
       [legacy_key |-> "experimental_use_freeform_apply_patch", feature |-> "ApplyPatchFreeform"],
       [legacy_key |-> "include_apply_patch_tool", feature |-> "ApplyPatchFreeform"] >>

legacy_feature_for_key(k) ==
    LET hit == {i \in DOMAIN ALIASES : ALIASES[i].legacy_key = k}
    IN IF hit = {} THEN None ELSE Some(ALIASES[Min(hit)].feature)

\* feature_for_key: the registry first, then the legacy aliases
feature_for_key(k) ==
    LET hit == {i \in DOMAIN FEATURES : FEATURES[i].key = k}
    IN IF hit # {} THEN Some(FEATURES[Min(hit)].id) ELSE legacy_feature_for_key(k)

----------------------------------------------------------------------------
(* features.rs: the Features container                                      *)

\* Features::default()
NoFeatures == [enabled |-> {}, legacy_usages |-> {}]

with_defaults ==
    [enabled |-> {FEATURES[i].id : i \in {j \in DOMAIN FEATURES : FEATURES[j].default_enabled}},
     legacy_usages |-> {}]

enabled(feats, f) == f \in feats.enabled

enable(feats, f) == [feats EXCEPT !.enabled = @ \cup {f}]

disable(feats, f) == [feats EXCEPT !.enabled = @ \ {f}]

LegacyFeatureUsage(alias, f) == [alias |-> alias, feature |-> f]

record_legacy_usage_force(feats, alias, f) ==
    [feats EXCEPT !.legacy_usages = @ \cup {LegacyFeatureUsage(alias, f)}]

record_legacy_usage(feats, alias, f) ==
    IF alias = key(f) THEN feats ELSE record_legacy_usage_force(feats, alias, f)

\* The keys of the [features] tables the model draws from, in the order a
\* BTreeMap<String, bool> iterates them (byte-wise lexicographic).
MapKeys == << "apply_patch_freeform",
              "experimental_use_unified_exec_tool",
              "include_apply_patch_tool",
              "no_such_feature",
              "shell_tool",
              "unified_exec",
              "web_search_request" >>

MapKeySet == {MapKeys[i] : i \in DOMAIN MapKeys}

KeyIdx(k) == CHOOSE i \in DOMAIN MapKeys : MapKeys[i] = k

\* one iteration of the loop of apply_map (lines 230-244)
apply_entry(feats, k, v) ==
    LET feat == feature_for_key(k) IN
    IF feat = None THEN feats
    ELSE LET f  == feat[1]
             f1 == IF k # key(f) THEN record_legacy_usage(feats, k, f) ELSE feats
         IN IF v THEN enable(f1, f) ELSE disable(f1, f)

RECURSIVE apply_from(_, _, _)
apply_from(feats, m, i) ==
    IF i > Len(MapKeys) THEN feats
    ELSE IF MapKeys[i] \in DOMAIN m
         THEN apply_from(apply_entry(feats, MapKeys[i], m[MapKeys[i]]), m, i + 1)
         ELSE apply_from(feats, m, i + 1)

RECURSIVE apply_from_stop_at_unknown(_, _, _)
apply_from_stop_at_unknown(feats, m, i) ==
    IF i > Len(MapKeys) THEN feats
    ELSE IF MapKeys[i] \in DOMAIN m
         THEN IF feature_for_key(MapKeys[i]) = None THEN feats
              ELSE apply_from_stop_at_unknown(
                       apply_entry(feats, MapKeys[i], m[MapKeys[i]]), m, i + 1)
         ELSE apply_from_stop_at_unknown(feats, m, i + 1)

apply_map_stop_at_unknown(feats, m) == apply_from_stop_at_unknown(feats, m, 1)

\* Features::apply_map: for (k, v) in m, in key order
apply_map(feats, m) == apply_from(feats, m, 1)

\* legacy.rs, set_if_some: an Option that is Some sets the feature and
\* records the legacy key that was used
set_if_some(feats, f, maybe_value, alias_key) ==
    IF maybe_value = None THEN feats
    ELSE record_legacy_usage_force(
             IF maybe_value[1] THEN enable(feats, f) ELSE disable(feats, f),
             alias_key, f)

LegacyFeatureToggles(iapt, eufap, euuet, tws) ==
    [include_apply_patch_tool |-> iapt,
     experimental_use_freeform_apply_patch |-> eufap,
     experimental_use_unified_exec_tool |-> euuet,
     tools_web_search |-> tws]

\* LegacyFeatureToggles::apply
legacy_apply(t, feats) ==
    LET f1 == set_if_some(feats, "ApplyPatchFreeform", t.include_apply_patch_tool,
                          "include_apply_patch_tool")
        f2 == set_if_some(f1, "ApplyPatchFreeform", t.experimental_use_freeform_apply_patch,
                          "experimental_use_freeform_apply_patch")
        f3 == set_if_some(f2, "UnifiedExec", t.experimental_use_unified_exec_tool,
                          "experimental_use_unified_exec_tool")
    IN set_if_some(f3, "WebSearchRequest", t.tools_web_search, "tools.web_search")

\* FeatureOverrides::apply
overrides_apply(o, feats) ==
    legacy_apply(LegacyFeatureToggles(o.include_apply_patch_tool, None, None,
                                      o.web_search_request), feats)

----------------------------------------------------------------------------
(* features.rs: Features::from_config                                       *)

\* The configuration is a set of mentions: (source, key) -> bool.  A legacy
\* field that is not mentioned is None, a [features] table holds the
\* mentioned keys.
LegacySlots(src, fields) == {<<src, fields[i]>> : i \in DOMAIN fields}

Slots ==
    LegacySlots("cfg", <<"experimental_use_freeform_apply_patch",
                         "experimental_use_unified_exec_tool",
                         "tools.web_search">>)
    \cup {<<"cfg.features", MapKeys[i]>> : i \in DOMAIN MapKeys}
    \cup LegacySlots("profile", <<"include_apply_patch_tool",
                                  "experimental_use_freeform_apply_patch",
                                  "experimental_use_unified_exec_tool",
                                  "tools_web_search">>)
    \cup {<<"profile.features", MapKeys[i]>> : i \in DOMAIN MapKeys}
    \cup LegacySlots("overrides", <<"include_apply_patch_tool", "web_search_request">>)

Field(cfg, src, k) == IF <<src, k>> \in DOMAIN cfg THEN Some(cfg[<<src, k>>]) ELSE None

Entries(cfg, src) ==
    [k \in {x \in MapKeySet : <<src, x>> \in DOMAIN cfg} |-> cfg[<<src, k>>]]

from_config_base_table_last(cfg) ==
    LET f0 == with_defaults
        f1 == legacy_apply(LegacyFeatureToggles(
                  None,
                  Field(cfg, "cfg", "experimental_use_freeform_apply_patch"),
                  Field(cfg, "cfg", "experimental_use_unified_exec_tool"),
                  Field(cfg, "cfg", "tools.web_search")), f0)
        f3 == legacy_apply(LegacyFeatureToggles(
                  Field(cfg, "profile", "include_apply_patch_tool"),
                  Field(cfg, "profile", "experimental_use_freeform_apply_patch"),
                  Field(cfg, "profile", "experimental_use_unified_exec_tool"),
                  Field(cfg, "profile", "tools_web_search")), f1)
        f4 == apply_map(f3, Entries(cfg, "profile.features"))
        f5 == overrides_apply(
                  [include_apply_patch_tool |-> Field(cfg, "overrides", "include_apply_patch_tool"),
                   web_search_request |-> Field(cfg, "overrides", "web_search_request")], f4)
    IN apply_map(f5, Entries(cfg, "cfg.features"))

from_config(cfg) ==
    LET f0 == with_defaults
        f1 == legacy_apply(LegacyFeatureToggles(
                  None,
                  Field(cfg, "cfg", "experimental_use_freeform_apply_patch"),
                  Field(cfg, "cfg", "experimental_use_unified_exec_tool"),
                  Field(cfg, "cfg", "tools.web_search")), f0)
        f2 == apply_map(f1, Entries(cfg, "cfg.features"))
        f3 == legacy_apply(LegacyFeatureToggles(
                  Field(cfg, "profile", "include_apply_patch_tool"),
                  Field(cfg, "profile", "experimental_use_freeform_apply_patch"),
                  Field(cfg, "profile", "experimental_use_unified_exec_tool"),
                  Field(cfg, "profile", "tools_web_search")), f2)
        f4 == apply_map(f3, Entries(cfg, "profile.features"))
    IN overrides_apply(
           [include_apply_patch_tool |-> Field(cfg, "overrides", "include_apply_patch_tool"),
            web_search_request |-> Field(cfg, "overrides", "web_search_request")], f4)

----------------------------------------------------------------------------
(* features.rs: bounds and inputs                                           *)

\* a [features] table of the model holds at most this many entries
MaxMapEntries == 2
\* a configuration of the model mentions at most this many settings
MaxMentions == 2

RECURSIVE KSubsets(_, _)
\* the subsets of S with at most k elements
KSubsets(S, k) ==
    IF k = 0 THEN {{}}
    ELSE LET smaller == KSubsets(S, k - 1)
         IN smaller \cup {T \cup {x} : T \in smaller, x \in S}

Maps == UNION {[S -> BOOLEAN] : S \in KSubsets(MapKeySet, MaxMapEntries)}

Configs == UNION {[S -> BOOLEAN] : S \in KSubsets(Slots, MaxMentions)}

\* the features the setup calls toggle: those the keys of MapKeys name
ToggleFeatures == {"ApplyPatchFreeform", "UnifiedExec", "ShellTool", "WebSearchRequest"}

CanonicalKeys == {FEATURES[i].key : i \in DOMAIN FEATURES}

NoCall == [op |-> "none"]

FeatIdle ==
    /\ target_windows = FALSE
    /\ features = NoFeatures
    /\ f_phase = "idle"
    /\ f_last = NoCall
    /\ c_in = <<>>

----------------------------------------------------------------------------
(* features.rs: a Features instance and the calls made on it.  A behaviour  *)
(* sets the instance up with enable / disable / record_legacy_usage_force   *)
(* and then makes one observed call.                                        *)

FeatInit ==
    /\ target_windows \in BOOLEAN
    /\ features = with_defaults
    /\ f_phase = "setup"
    /\ f_last = NoCall
    /\ c_in = <<>>

Enable ==
    /\ UNCHANGED notFeat
    /\ f_phase = "setup"
    /\ \E f \in ToggleFeatures : features' = enable(features, f)
    /\ UNCHANGED <<target_windows, f_phase, f_last, c_in>>

Disable ==
    /\ UNCHANGED notFeat
    /\ f_phase = "setup"
    /\ \E f \in ToggleFeatures : features' = disable(features, f)
    /\ UNCHANGED <<target_windows, f_phase, f_last, c_in>>

\* as the deprecation-notice test does (deprecation_notice.rs:30-32)
RecordLegacyUsageForce ==
    /\ UNCHANGED notFeat
    /\ f_phase = "setup"
    /\ features' = record_legacy_usage_force(
                       features, "use_experimental_unified_exec_tool", "UnifiedExec")
    /\ UNCHANGED <<target_windows, f_phase, f_last, c_in>>

ApplyMap ==
    /\ UNCHANGED notFeat
    /\ f_phase = "setup"
    /\ \E m \in Maps :
         /\ features' = apply_map(features, m)
         /\ f_last' = [op |-> "apply_map", arg |-> m, before |-> features]
    /\ f_phase' = "called"
    /\ UNCHANGED <<target_windows, c_in>>

Info ==
    /\ UNCHANGED notFeat
    /\ f_phase = "setup"
    /\ \E f \in Feature :
         f_last' = [op |-> "info", arg |-> f, res |-> info(f)]
    /\ f_phase' = "called"
    /\ UNCHANGED <<target_windows, features, c_in>>

FeatureForKey ==
    /\ UNCHANGED notFeat
    /\ f_phase = "setup"
    /\ \E k \in CanonicalKeys \cup MapKeySet :
         f_last' = [op |-> "feature_for_key", arg |-> k, res |-> feature_for_key(k)]
    /\ f_phase' = "called"
    /\ UNCHANGED <<target_windows, features, c_in>>

FeatNext ==
    \/ Enable
    \/ Disable
    \/ RecordLegacyUsageForce
    \/ ApplyMap
    \/ Info
    \/ FeatureForKey

----------------------------------------------------------------------------
(* Features::from_config applied to a configuration drawn from Configs      *)

ConfigInit ==
    /\ target_windows \in BOOLEAN
    /\ features = NoFeatures
    /\ f_phase = "config"
    /\ f_last = NoCall
    /\ c_in \in Configs

FromConfig ==
    /\ UNCHANGED notFeat
    /\ f_phase = "config"
    /\ features' = from_config(c_in)
    /\ f_phase' = "configured"
    /\ UNCHANGED <<target_windows, f_last, c_in>>

ConfigNext == FromConfig


MacIdle ==
    /\ homeSet = FALSE
    /\ appIsDir = [p \in AllAppPaths |-> FALSE]
    /\ mkdirOk = [d \in {AppsDir, HomeAppsDir} |-> FALSE]
    /\ dittoOut = [d \in {AppsDir, HomeAppsDir} |-> "ok"]
    /\ mac_pc = "idle"
    /\ cmds = <<>>
    /\ mount_point = NoPath
    /\ install_called = FALSE
    /\ dir_idx = 0
    /\ install_result = Pending
    /\ download_result = Pending
    /\ run_result = Pending
    /\ warnings = <<>>

----------------------------------------------------------------------------
(* ghost_snapshot.rs: GhostSnapshotTask::run.  Two tokio tasks (the         *)
(* snapshot task and the timeout-warning task), the blocking git snapshot,  *)
(* the timer and the cancellation token run concurrently.                   *)

BlockingOutcome == {"ok", "not_git_repo", "git_error", "panic"}

GhostIdle ==
    /\ g_warnings_enabled = FALSE
    /\ g_pc = "idle"
    /\ g_warn_pc = "none"
    /\ g_blocking = "not_started"
    /\ g_report_left = 0
    /\ g_cancel = FALSE
    /\ g_timer = FALSE
    /\ g_done_sent = FALSE
    /\ g_cancelled = None
    /\ g_events = <<>>
    /\ g_gate = 0

GhostInit ==
    /\ g_warnings_enabled \in BOOLEAN
    /\ g_pc = "spawned"
    /\ g_warn_pc = "none"
    /\ g_blocking = "not_started"
    /\ g_report_left = 0
    /\ g_cancel = FALSE
    /\ g_timer = FALSE
    /\ g_done_sent = FALSE
    /\ g_cancelled = None
    /\ g_events = <<>>
    /\ g_gate = 0

\* tokio::select! (lines 56-69): the branches that are ready when the warning
\* task is polled; select! picks any one of them
warn_ready_branches ==
    (IF g_timer THEN {"sleep"} ELSE {})
    \cup (IF g_done_sent THEN {"snapshot_done_rx"} ELSE {})
    \cup (IF g_cancel THEN {"cancelled"} ELSE {})

\* lines 43-73: create the channel and spawn the warning task when warnings
\* are enabled
GhostStart ==
    /\ UNCHANGED notGhost
    /\ g_pc = "spawned"
    /\ g_pc' = "select"
    /\ g_warn_pc' = IF g_warnings_enabled THEN "select" ELSE "none"
    /\ UNCHANGED <<g_warnings_enabled, g_blocking, g_report_left, g_cancel, g_timer,
                   g_done_sent, g_cancelled, g_events, g_gate>>

\* lines 78-88: the async branch is polled for the first time and hands the
\* snapshot to the blocking pool
StartBlocking ==
    /\ UNCHANGED notGhost
    /\ g_pc = "select"
    /\ g_blocking = "not_started"
    /\ g_blocking' = "running"
    /\ UNCHANGED <<g_warnings_enabled, g_pc, g_warn_pc, g_report_left, g_cancel,
                   g_timer, g_done_sent, g_cancelled, g_events, g_gate>>

\* create_ghost_commit_with_report returns, or the blocking closure panics
BlockingFinishes ==
    /\ UNCHANGED notGhost
    /\ g_blocking = "running"
    /\ g_blocking' \in BlockingOutcome
    /\ UNCHANGED <<g_warnings_enabled, g_pc, g_warn_pc, g_report_left, g_cancel,
                   g_timer, g_done_sent, g_cancelled, g_events, g_gate>>

\* lines 89-138: the match on the joined result, up to its first await
MainResumes ==
    /\ UNCHANGED notGhost
    /\ g_pc = "select"
    /\ g_blocking \in BlockingOutcome
    /\ CASE g_blocking = "ok" ->
              /\ g_pc' = "report"
              /\ g_report_left' \in IF g_warnings_enabled THEN {0, 1, 2} ELSE {0}
              /\ UNCHANGED g_cancelled
         [] g_blocking = "panic" ->
              /\ g_pc' = "notify"
              /\ UNCHANGED <<g_report_left, g_cancelled>>
         [] OTHER ->
              /\ g_pc' = "send_done"
              /\ g_cancelled' = Some(FALSE)
              /\ UNCHANGED g_report_left
    /\ UNCHANGED <<g_warnings_enabled, g_warn_pc, g_blocking, g_cancel, g_timer,
                   g_done_sent, g_events, g_gate>>

\* lines 93-105: one send_event of the loop over format_snapshot_warnings
MainReports ==
    /\ UNCHANGED notGhost
    /\ g_pc = "report"
    /\ g_report_left > 0
    /\ g_events' = Append(g_events, "report_warning")
    /\ g_report_left' = g_report_left - 1
    /\ UNCHANGED <<g_warnings_enabled, g_pc, g_warn_pc, g_blocking, g_cancel, g_timer,
                   g_done_sent, g_cancelled, g_gate>>

\* lines 107-113: record_conversation_items, then the async branch completes
MainRecords ==
    /\ UNCHANGED notGhost
    /\ g_pc = "report"
    /\ g_report_left = 0
    /\ g_events' = Append(g_events, "ghost_snapshot_item")
    /\ g_pc' = "send_done"
    /\ g_cancelled' = Some(FALSE)
    /\ UNCHANGED <<g_warnings_enabled, g_warn_pc, g_blocking, g_report_left, g_cancel,
                   g_timer, g_done_sent, g_gate>>

\* lines 127-137: notify_background_event after a panic
MainNotifies ==
    /\ UNCHANGED notGhost
    /\ g_pc = "notify"
    /\ g_events' = Append(g_events, "panic_notice")
    /\ g_pc' = "send_done"
    /\ g_cancelled' = Some(FALSE)
    /\ UNCHANGED <<g_warnings_enabled, g_warn_pc, g_blocking, g_report_left, g_cancel,
                   g_timer, g_done_sent, g_gate>>

\* a select! whose cancelled() branch is only looked at once the blocking
\* snapshot is no longer running
MainCancelledAfterSnapshot ==
    /\ UNCHANGED notGhost
    /\ g_pc \in {"select", "report", "notify"}
    /\ g_cancel
    /\ g_blocking # "running"
    /\ g_pc' = "send_done"
    /\ g_cancelled' = Some(TRUE)
    /\ UNCHANGED <<g_warnings_enabled, g_warn_pc, g_blocking, g_report_left, g_cancel,
                   g_timer, g_done_sent, g_events, g_gate>>

\* line 77: select! takes the cancelled() branch and drops the async branch
\* wherever it is suspended
MainCancelled ==
    /\ UNCHANGED notGhost
    /\ g_pc \in {"select", "report", "notify"}
    /\ g_cancel
    /\ g_pc' = "send_done"
    /\ g_cancelled' = Some(TRUE)
    /\ UNCHANGED <<g_warnings_enabled, g_warn_pc, g_blocking, g_report_left, g_cancel,
                   g_timer, g_done_sent, g_events, g_gate>>

\* line 142: let _ = snapshot_done_tx.send(())
SendDone ==
    /\ UNCHANGED notGhost
    /\ g_pc = "send_done"
    /\ g_done_sent' = TRUE
    /\ g_pc' = "mark_ready"
    /\ UNCHANGED <<g_warnings_enabled, g_warn_pc, g_blocking, g_report_left, g_cancel,
                   g_timer, g_cancelled, g_events, g_gate>>

\* lines 148-152: ctx.tool_call_gate.mark_ready(token).await
MarkReady ==
    /\ UNCHANGED notGhost
    /\ g_pc = "mark_ready"
    /\ g_gate' = g_gate + 1
    /\ g_pc' = "end"
    /\ UNCHANGED <<g_warnings_enabled, g_warn_pc, g_blocking, g_report_left, g_cancel,
                   g_timer, g_done_sent, g_cancelled, g_events>>

\* the session cancels the task's token
CancelFires ==
    /\ UNCHANGED notGhost
    /\ g_pc # "idle"
    /\ ~g_cancel
    /\ g_cancel' = TRUE
    /\ UNCHANGED <<g_warnings_enabled, g_pc, g_warn_pc, g_blocking, g_report_left,
                   g_timer, g_done_sent, g_cancelled, g_events, g_gate>>

\* tokio::time::sleep(SNAPSHOT_WARNING_THRESHOLD) reaches its deadline
TimerElapses ==
    /\ UNCHANGED notGhost
    /\ g_warn_pc = "select"
    /\ ~g_timer
    /\ g_timer' = TRUE
    /\ UNCHANGED <<g_warnings_enabled, g_pc, g_warn_pc, g_blocking, g_report_left,
                   g_cancel, g_done_sent, g_cancelled, g_events, g_gate>>

\* lines 56-69: the warning task is polled with at least one branch ready
WarnSelects ==
    /\ UNCHANGED notGhost
    /\ g_warn_pc = "select"
    /\ \E branch \in warn_ready_branches :
         g_warn_pc' = IF branch = "sleep" THEN "sending" ELSE "exited"
    /\ UNCHANGED <<g_warnings_enabled, g_pc, g_blocking, g_report_left, g_cancel,
                   g_timer, g_done_sent, g_cancelled, g_events, g_gate>>

\* lines 58-65: send_event(Warning("snapshot is taking longer than expected"))
WarnSends ==
    /\ UNCHANGED notGhost
    /\ g_warn_pc = "sending"
    /\ g_events' = Append(g_events, "slow_snapshot_warning")
    /\ g_warn_pc' = "exited"
    /\ UNCHANGED <<g_warnings_enabled, g_pc, g_blocking, g_report_left, g_cancel,
                   g_timer, g_done_sent, g_cancelled, g_gate>>

\* the steps of the spawned snapshot task (lines 42-153): tokio polls a task
\* whenever a future it awaits is ready
GhostTaskStep ==
    \/ GhostStart
    \/ StartBlocking
    \/ MainResumes
    \/ MainReports
    \/ MainRecords
    \/ MainNotifies
    \/ MainCancelled
    \/ SendDone
    \/ MarkReady

GhostNext ==
    \/ GhostStart
    \/ StartBlocking
    \/ BlockingFinishes
    \/ MainResumes
    \/ MainReports
    \/ MainRecords
    \/ MainNotifies
    \/ MainCancelled
    \/ SendDone
    \/ MarkReady
    \/ CancelFires
    \/ TimerElapses
    \/ WarnSelects
    \/ WarnSends

----------------------------------------------------------------------------
(* login.rs: the login-family handlers.  Each one ends in                   *)
(* std::process::exit.                                                      *)

Running == "running"

LoginHandlers == {"run_login_with_chatgpt", "run_login_with_api_key",
                  "run_login_with_device_code", "run_login_status", "run_logout"}

\* config.forced_login_method: None, Some(Api), Some(Chatgpt)
ForcedLoginMethod == {"None", "Api", "Chatgpt"}

\* how the operation of each handler can end
OpOutcomes(h) ==
    CASE h = "run_login_with_chatgpt" ->
            {"Ok", "Err(run_login_server)", "Err(block_until_done)"}
      [] h = "run_login_with_api_key" -> {"Ok", "Err"}
      [] h = "run_login_with_device_code" -> {"Ok", "Err"}
      [] h = "run_login_status" ->
            {"Ok(Some(ApiKey)),get_token=Ok", "Ok(Some(ApiKey)),get_token=Err",
             "Ok(Some(Chatgpt))", "Ok(None)", "Err"}
      [] OTHER -> {"Ok(true)", "Ok(false)", "Err"}

\* the handler refuses before doing anything (lines 48-51, 79-82, 134-137)
login_disabled(h, forced) ==
    CASE h \in {"run_login_with_chatgpt", "run_login_with_device_code"} -> forced = "Api"
      [] h = "run_login_with_api_key" -> forced = "Chatgpt"
      [] OTHER -> FALSE

\* run_login_status treating "not logged in" and an unreadable key as success
run_login_status_lenient(op) == IF op = "Err" THEN 1 ELSE 0

\* run_login_status, lines 225-251
run_login_status(op) ==
    IF op \in {"Ok(Some(ApiKey)),get_token=Ok", "Ok(Some(Chatgpt))"} THEN 0 ELSE 1

\* run_logout, lines 257-270
run_logout(op) == IF op \in {"Ok(true)", "Ok(false)"} THEN 0 ELSE 1

\* run_login_with_chatgpt / _api_key / _device_code: the final match
run_login(op) == IF op = "Ok" THEN 0 ELSE 1

exit_status(h, op) ==
    CASE h = "run_login_status" -> run_login_status(op)
      [] h = "run_logout" -> run_logout(op)
      [] OTHER -> run_login(op)

LoginIdle ==
    /\ l_handler = "none"
    /\ l_overrides_ok = FALSE
    /\ l_config_ok = FALSE
    /\ l_forced = "None"
    /\ l_pc = "idle"
    /\ l_op = ""
    /\ l_exit = Running

LoginInit ==
    /\ l_handler \in LoginHandlers
    /\ l_overrides_ok \in BOOLEAN
    /\ l_config_ok \in BOOLEAN
    /\ l_forced \in ForcedLoginMethod
    /\ l_pc = "start"
    /\ l_op = ""
    /\ l_exit = Running

\* load_config_or_exit (lines 273-289)
LoadConfigOrExit ==
    /\ UNCHANGED notLogin
    /\ l_pc = "start"
    /\ IF l_overrides_ok /\ l_config_ok
       THEN /\ l_pc' = "loaded"
            /\ UNCHANGED l_exit
       ELSE /\ l_pc' = "exited"
            /\ l_exit' = 1
    /\ UNCHANGED <<l_handler, l_overrides_ok, l_config_ok, l_forced, l_op>>

\* the rest of the handler: the forced_login_method check, the operation and
\* the exit on its result
RunHandler ==
    /\ UNCHANGED notLogin
    /\ l_pc = "loaded"
    /\ IF login_disabled(l_handler, l_forced)
       THEN /\ l_exit' = 1
            /\ UNCHANGED l_op
       ELSE \E op \in OpOutcomes(l_handler) :
              /\ l_op' = op
              /\ l_exit' = exit_status(l_handler, op)
    /\ l_pc' = "exited"
    /\ UNCHANGED <<l_handler, l_overrides_ok, l_config_ok, l_forced>>

LoginNext ==
    \/ LoadConfigOrExit
    \/ RunHandler

----------------------------------------------------------------------------
(* login.rs: run_login_with_device_code_fallback_to_browser.  It shares     *)
(* load_config_or_exit and the exit status with the other handlers.         *)

FallbackHandler == "run_login_with_device_code_fallback_to_browser"

\* the crate's CLIENT_ID and the issuer ServerOptions::new starts with
DefaultClientId == "CLIENT_ID"
DefaultIssuer == "DEFAULT_ISSUER"

\* lines 175-185: ServerOptions::new(.., client_id.unwrap_or(CLIENT_ID), ..),
\* the issuer replaced when one is given, open_browser = false
fallback_server_options(issuer_base_url, client_id) ==
    [client_id    |-> IF client_id = None THEN DefaultClientId ELSE client_id[1],
     issuer       |-> IF issuer_base_url = None THEN DefaultIssuer ELSE issuer_base_url[1],
     open_browser |-> FALSE]

\* run_device_code_login: Ok(()) or an io::Error of some kind
DeviceCodeOutcome == {"Ok", "Err(NotFound)", "Err(PermissionDenied)", "Err(Other)"}

\* any device-code error falls back to the browser
falls_back_to_browser_on_any_error(device) == device # "Ok"

\* line 193: e.kind() == std::io::ErrorKind::NotFound
falls_back_to_browser(device) == device = "Err(NotFound)"

FallbackIdle ==
    /\ fb_issuer_base_url = None
    /\ fb_client_id = None
    /\ fb_opts = None
    /\ fb_device = ""
    /\ fb_server = "not_called"

FallbackInit ==
    /\ l_handler = FallbackHandler
    /\ l_overrides_ok \in BOOLEAN
    /\ l_config_ok \in BOOLEAN
    /\ l_forced \in ForcedLoginMethod
    /\ l_pc = "start"
    /\ l_op = ""
    /\ l_exit = Running
    /\ fb_issuer_base_url \in {None, Some("https://issuer.example")}
    /\ fb_client_id \in {None, Some("client-1")}
    /\ fb_opts = None
    /\ fb_device = ""
    /\ fb_server = "not_called"

\* lines 170-202 and 215-218: the forced_login_method check, the options, the
\* device-code login and the exits that follow it directly
FallbackDeviceCode ==
    /\ UNCHANGED notFallback
    /\ l_handler = FallbackHandler
    /\ l_pc = "loaded"
    /\ IF l_forced = "Api"
       THEN /\ l_exit' = 1
            /\ l_pc' = "exited"
            /\ UNCHANGED <<fb_opts, fb_device>>
       ELSE /\ fb_opts' = Some(fallback_server_options(fb_issuer_base_url, fb_client_id))
            /\ \E device \in DeviceCodeOutcome :
                 /\ fb_device' = device
                 /\ IF device = "Ok"
                    THEN l_exit' = 0 /\ l_pc' = "exited"
                    ELSE IF falls_back_to_browser(device)
                    THEN l_pc' = "fallback" /\ UNCHANGED l_exit
                    ELSE l_exit' = 1 /\ l_pc' = "exited"
    /\ UNCHANGED <<l_handler, l_overrides_ok, l_config_ok, l_forced, l_op,
                   fb_issuer_base_url, fb_client_id, fb_server>>

\* lines 194-197 and 209-212: run_login_server(opts)
FallbackStartServer ==
    /\ UNCHANGED notFallback
    /\ l_pc = "fallback"
    /\ \E started \in BOOLEAN :
         IF started
         THEN /\ fb_server' = "started"
              /\ l_pc' = "serving"
              /\ UNCHANGED l_exit
         ELSE /\ fb_server' = "failed_to_start"
              /\ l_pc' = "exited"
              /\ l_exit' = 1
    /\ UNCHANGED <<l_handler, l_overrides_ok, l_config_ok, l_forced, l_op,
                   fb_issuer_base_url, fb_client_id, fb_opts, fb_device>>

\* lines 198-207: server.block_until_done().await and the exit on its result
FallbackBlockUntilDone ==
    /\ UNCHANGED notFallback
    /\ l_pc = "serving"
    /\ \E op \in {"Ok", "Err"} :
         /\ l_op' = op
         /\ l_exit' = run_login(op)
    /\ l_pc' = "exited"
    /\ UNCHANGED <<l_handler, l_overrides_ok, l_config_ok, l_forced,
                   fb_issuer_base_url, fb_client_id, fb_opts, fb_device, fb_server>>

FallbackNext ==
    \/ LoadConfigOrExit
    \/ FallbackDeviceCode
    \/ FallbackStartServer
    \/ FallbackBlockUntilDone

----------------------------------------------------------------------------
(* cli/src/main.rs: cli_main and the helpers it calls                       *)

\* tui/src/cli.rs: the fields of struct Cli (TuiCli), as clap leaves them
\* when no flag is given
DefaultTuiCli ==
    [prompt |-> None, images |-> <<>>,
     resume_picker |-> FALSE, resume_last |-> FALSE,
     resume_session_id |-> None, resume_show_all |-> FALSE,
     fork_picker |-> FALSE, fork_last |-> FALSE,
     fork_session_id |-> None, fork_show_all |-> FALSE,
     model |-> None, oss |-> FALSE, oss_provider |-> None,
     config_profile |-> None, sandbox_mode |-> None, approval_policy |-> None,
     full_auto |-> FALSE, dangerously_bypass_approvals_and_sandbox |-> FALSE,
     cwd |-> None, web_search |-> FALSE, add_dir |-> <<>>,
     no_alt_screen |-> FALSE, config_overrides |-> <<>>]

\* struct LoginCommand with no flag given
DefaultLoginCommand ==
    [config_overrides |-> <<>>, with_api_key |-> FALSE, api_key |-> None,
     use_device_code |-> FALSE, issuer_base_url |-> None, client_id |-> None,
     action |-> None]

\* struct MultitoolCli of a bare invocation; session_id, last, all and sub_cli
\* are the fields of ResumeCommand / ForkCommand
DefaultMultitoolCli ==
    [config_overrides |-> <<>>, enable |-> <<>>, disable |-> <<>>,
     interactive |-> DefaultTuiCli, subcommand |-> "none",
     session_id |-> None, last |-> FALSE, all |-> FALSE,
     sub_cli |-> DefaultTuiCli, login |-> DefaultLoginCommand]

StillRunning == [kind |-> "running"]

CliIdle ==
    /\ cli_args = DefaultMultitoolCli
    /\ cli_stdin = "terminal"
    /\ cli_pc = "idle"
    /\ cli_root = <<>>
    /\ cli_interactive = DefaultTuiCli
    /\ cli_sub = <<>>
    /\ cli_out = StillRunning

\* the state right after MultitoolCli::parse() (lines 563-571)
CliParsed ==
    /\ cli_pc = "parsed"
    /\ cli_root = cli_args.config_overrides
    /\ cli_interactive = cli_args.interactive
    /\ cli_sub = <<>>
    /\ cli_out = StillRunning

\* is_known_feature_key (features.rs 301-303)
is_known_feature_key(k) == feature_for_key(k) # None

\* format!("features.{feature}=true") / format!("features.{feature}=false")
FeatureOverride(feature, value) == <<"features.", feature, "=", value>>

\* the overrides to_overrides pushes and the error it ends in, if any, when it
\* goes through `names` in order; everything pushed is dropped on an error
RECURSIVE validate_and_push(_, _, _)
validate_and_push(names, value, pushed) ==
    IF names = <<>> THEN Ok(pushed)
    ELSE IF is_known_feature_key(Head(names))
    THEN validate_and_push(Tail(names), value, Append(pushed, FeatureOverride(Head(names), value)))
    ELSE [Err("unknown feature", "", FALSE) EXCEPT !.val = Head(names)]

\* to_overrides accepting every name
to_overrides_unvalidated(to_enable, to_disable) ==
    Ok([i \in 1..Len(to_enable) |-> FeatureOverride(to_enable[i], "true")]
       \o [i \in 1..Len(to_disable) |-> FeatureOverride(to_disable[i], "false")])

\* FeatureToggles::to_overrides (lines 500-511)
to_overrides(to_enable, to_disable) ==
    LET enabled_part == validate_and_push(to_enable, "true", <<>>)
    IN IF ~enabled_part.ok THEN enabled_part
       ELSE validate_and_push(to_disable, "false", enabled_part.val)

\* prepend_config_flags with the two lists swapped
prepend_config_flags_appending(subcommand_config_overrides, cli_config_overrides) ==
    subcommand_config_overrides \o cli_config_overrides

\* prepend_config_flags (lines 893-900): splice(0..0, root overrides)
prepend_config_flags(subcommand_config_overrides, cli_config_overrides) ==
    cli_config_overrides \o subcommand_config_overrides

\* lines 573-576: fold --enable/--disable into the root overrides
FoldToggles ==
    /\ UNCHANGED notCli
    /\ cli_pc = "parsed"
    /\ LET toggle_overrides == to_overrides(cli_args.enable, cli_args.disable)
       IN IF toggle_overrides.ok
          THEN /\ cli_root' = cli_root \o toggle_overrides.val
               /\ cli_pc' = "folded"
               /\ UNCHANGED cli_out
          ELSE /\ cli_out' = [kind |-> "error", error |-> toggle_overrides]
               /\ cli_pc' = "returned"
               /\ UNCHANGED cli_root
    /\ UNCHANGED <<cli_args, cli_stdin, cli_interactive, cli_sub>>

----------------------------------------------------------------------------
(* cli/src/main.rs: the `login` subcommand                                  *)

ApiKeyHint == "--api-key is no longer supported; pipe the key to login --with-api-key"

Handler(name, args) == [kind |-> "handler", handler |-> name, args |-> args]

Exit(status, stderr) == [kind |-> "exit", status |-> status, stderr |-> stderr]

\* lines 684-707: which branch of the match / if-else chain is taken
login_route(login) ==
    IF login.action = Some("Status") THEN "run_login_status"
    ELSE IF login.use_device_code THEN "run_login_with_device_code"
    ELSE IF login.api_key # None THEN "reject_api_key"
    ELSE IF login.with_api_key THEN "read_api_key_from_stdin"
    ELSE "run_login_with_chatgpt"

\* lines 679-709: Some(Subcommand::Login(login_cli))
DispatchLogin ==
    /\ UNCHANGED notCli
    /\ cli_pc = "folded"
    /\ cli_args.subcommand = "login"
    /\ cli_sub' = prepend_config_flags(cli_args.login.config_overrides, cli_root)
    /\ LET login == cli_args.login
           route == login_route(login)
       IN CASE route = "reject_api_key" ->
                 /\ cli_out' = Exit(1, <<ApiKeyHint>>)
                 /\ cli_pc' = "exited"
            [] route = "read_api_key_from_stdin" ->
                 /\ cli_pc' = "read_stdin"
                 /\ UNCHANGED cli_out
            [] route = "run_login_with_device_code" ->
                 /\ cli_out' = Handler(route, <<cli_sub', login.issuer_base_url, login.client_id>>)
                 /\ cli_pc' = "handler"
            [] OTHER ->
                 /\ cli_out' = Handler(route, <<cli_sub'>>)
                 /\ cli_pc' = "handler"
    /\ UNCHANGED <<cli_args, cli_stdin, cli_root, cli_interactive>>

StdinOutcome == {"terminal", "read_error", "empty", "key"}

\* read_api_key_from_stdin (login.rs 100-125), then line 701
ReadApiKeyFromStdin ==
    /\ UNCHANGED notCli
    /\ cli_pc = "read_stdin"
    /\ IF cli_stdin = "key"
       THEN /\ cli_out' = Handler("run_login_with_api_key", <<cli_sub, "piped-key">>)
            /\ cli_pc' = "handler"
       ELSE /\ cli_out' = Exit(1, <<cli_stdin>>)
            /\ cli_pc' = "exited"
    /\ UNCHANGED <<cli_args, cli_stdin, cli_root, cli_interactive, cli_sub>>

LoginCommands ==
    {[config_overrides |-> co, with_api_key |-> w, api_key |-> k,
      use_device_code |-> d, issuer_base_url |-> None, client_id |-> None,
      action |-> a] :
        co \in {<<>>, <<"model=o3">>}, w \in BOOLEAN, k \in {None, Some("sk-secret")},
        d \in BOOLEAN, a \in {None, Some("Status")}}

LoginCommandInit ==
    /\ cli_args \in {[DefaultMultitoolCli EXCEPT !.subcommand = "login", !.login = l,
                                                 !.config_overrides = co, !.enable = en] :
                        l \in LoginCommands, co \in {<<>>, <<"a=1">>},
                        en \in {<<>>, <<"unified_exec">>, <<"no_such_feature">>}}
    /\ cli_stdin \in StdinOutcome
    /\ CliParsed

LoginCommandNext ==
    \/ FoldToggles
    \/ DispatchLogin
    \/ ReadApiKeyFromStdin

----------------------------------------------------------------------------
(* One call of a pure function: the argument is chosen at the start, the    *)
(* call replaces fn_out by the result.                                      *)

FnIdle ==
    /\ fn_in = <<>>
    /\ fn_pc = "idle"
    /\ fn_out = None

FnCalled ==
    /\ fn_pc = "called"
    /\ fn_out = None

Panic == [ok |-> FALSE, panic |-> TRUE]

Returned(v) == [ok |-> TRUE, val |-> v]

----------------------------------------------------------------------------
(* login.rs: safe_format_key.  A &str is UTF-8: a key is modelled as the    *)
(* sequence of the byte widths of its characters, the character at position *)
(* i being <<i, width>>; str::len and the slices count bytes.               *)

MaxKeyChars == 14

CharWidths == {1, 2}

Keys == UNION {[1..n -> CharWidths] : n \in 0..MaxKeyChars}

RECURSIVE SumWidths(_, _)
SumWidths(api_key, n) == IF n = 0 THEN 0 ELSE api_key[n] + SumWidths(api_key, n - 1)

\* str::len: the length in bytes
ByteLen(api_key) == SumWidths(api_key, Len(api_key))

\* str::is_char_boundary(offset)
IsCharBoundary(api_key, offset) == \E n \in 0..Len(api_key) : SumWidths(api_key, n) = offset

\* the number of characters in the first `offset` bytes, offset a boundary
CharsBefore(api_key, offset) == CHOOSE n \in 0..Len(api_key) : SumWidths(api_key, n) = offset

Chars(api_key) == [i \in 1..Len(api_key) |-> <<i, api_key[i]>>]

\* "***": three characters that are at no position of the key
Star == <<0, 1>>
Stars == <<Star, Star, Star>>

\* safe_format_key (lines 291-298); &key[..8] and &key[key.len() - 5..] panic
\* when the offset is not a character boundary
safe_format_key(api_key) ==
    LET len == ByteLen(api_key)
    IN IF len <= 13 THEN Returned(Stars)
       ELSE IF ~IsCharBoundary(api_key, 8) \/ ~IsCharBoundary(api_key, len - 5)
       THEN Panic
       ELSE Returned(SubSeq(Chars(api_key), 1, CharsBefore(api_key, 8))
                     \o Stars
                     \o SubSeq(Chars(api_key), CharsBefore(api_key, len - 5) + 1, Len(api_key)))

SafeFormatKeyInit ==
    /\ fn_in \in Keys
    /\ FnCalled

SafeFormatKey ==
    /\ UNCHANGED notFn
    /\ fn_pc = "called"
    /\ fn_out' = safe_format_key(fn_in)
    /\ fn_pc' = "returned"
    /\ UNCHANGED fn_in

SafeFormatKeyNext == SafeFormatKey

----------------------------------------------------------------------------
(* cli/src/main.rs: --enable / --disable                                    *)

MaxToggles == 2

\* names given to --enable / --disable: canonical keys, a legacy alias and
\* names that are no feature key
ToggleNames == {"unified_exec", "web_search_request", "include_apply_patch_tool",
                "no_such_feature", "does_not_exist"}

ToggleLists == UNION {[1..n -> ToggleNames] : n \in 0..MaxToggles}

ToOverridesInit ==
    /\ cli_args \in {[DefaultMultitoolCli EXCEPT !.enable = en, !.disable = dis,
                                                 !.config_overrides = co] :
                        en \in ToggleLists, dis \in ToggleLists,
                        co \in {<<>>, <<"model=o3">>}}
    /\ cli_stdin = "terminal"
    /\ CliParsed

ToOverridesNext == FoldToggles

----------------------------------------------------------------------------
(* cli/src/main.rs: the interactive TUI, bare or after `resume` / `fork`    *)

\* a prompt is a sequence of characters; these two are "\r" and "\n"
CR == "CR"
LF == "LF"

RECURSIVE replace_crlf(_)
\* str::replace("\r\n", "\n"): leftmost matches, not overlapping
replace_crlf(s) ==
    IF s = <<>> THEN <<>>
    ELSE IF Len(s) >= 2 /\ s[1] = CR /\ s[2] = LF
    THEN <<LF>> \o replace_crlf(SubSeq(s, 3, Len(s)))
    ELSE <<s[1]>> \o replace_crlf(Tail(s))

\* str::replace('\r', "\n")
replace_cr(s) == [i \in DOMAIN s |-> IF s[i] = CR THEN LF ELSE s[i]]

\* the normalisation without its second replace
normalize_prompt_crlf_only(prompt) == replace_crlf(prompt)

\* prompt.replace("\r\n", "\n").replace('\r', "\n") (lines 908 and 1030)
normalize_prompt(prompt) == replace_cr(replace_crlf(prompt))

\* merge_interactive_cli_flags (lines 994-1037)
merge_interactive_cli_flags(interactive, subcommand_cli) ==
    [interactive EXCEPT
        !.model = IF subcommand_cli.model # None THEN subcommand_cli.model ELSE @,
        !.oss = IF subcommand_cli.oss THEN TRUE ELSE @,
        !.config_profile = IF subcommand_cli.config_profile # None
                           THEN subcommand_cli.config_profile ELSE @,
        !.sandbox_mode = IF subcommand_cli.sandbox_mode # None
                         THEN subcommand_cli.sandbox_mode ELSE @,
        !.approval_policy = IF subcommand_cli.approval_policy # None
                            THEN subcommand_cli.approval_policy ELSE @,
        !.full_auto = IF subcommand_cli.full_auto THEN TRUE ELSE @,
        !.dangerously_bypass_approvals_and_sandbox =
            IF subcommand_cli.dangerously_bypass_approvals_and_sandbox THEN TRUE ELSE @,
        !.cwd = IF subcommand_cli.cwd # None THEN subcommand_cli.cwd ELSE @,
        !.web_search = IF subcommand_cli.web_search THEN TRUE ELSE @,
        !.images = IF subcommand_cli.images # <<>> THEN subcommand_cli.images ELSE @,
        !.add_dir = IF subcommand_cli.add_dir # <<>> THEN @ \o subcommand_cli.add_dir ELSE @,
        !.prompt = IF subcommand_cli.prompt # None
                   THEN Some(normalize_prompt(subcommand_cli.prompt[1])) ELSE @,
        !.config_overrides = @ \o subcommand_cli.config_overrides]

\* finalize_resume_interactive always showing the picker
finalize_resume_interactive_always_picker(interactive, root_config_overrides, session_id, last, show_all, resume_cli) ==
    LET set == [interactive EXCEPT !.resume_picker = TRUE,
                                   !.resume_last = last,
                                   !.resume_session_id = session_id,
                                   !.resume_show_all = show_all]
        merged == merge_interactive_cli_flags(set, resume_cli)
    IN [merged EXCEPT !.config_overrides = prepend_config_flags(@, root_config_overrides)]

\* finalize_resume_interactive (lines 940-963)
finalize_resume_interactive(interactive, root_config_overrides, session_id, last, show_all, resume_cli) ==
    LET set == [interactive EXCEPT !.resume_picker = (session_id = None /\ ~last),
                                   !.resume_last = last,
                                   !.resume_session_id = session_id,
                                   !.resume_show_all = show_all]
        merged == merge_interactive_cli_flags(set, resume_cli)
    IN [merged EXCEPT !.config_overrides = prepend_config_flags(@, root_config_overrides)]

\* finalize_fork_interactive (lines 966-989)
finalize_fork_interactive(interactive, root_config_overrides, session_id, last, show_all, fork_cli) ==
    LET set == [interactive EXCEPT !.fork_picker = (session_id = None /\ ~last),
                                   !.fork_last = last,
                                   !.fork_session_id = session_id,
                                   !.fork_show_all = show_all]
        merged == merge_interactive_cli_flags(set, fork_cli)
    IN [merged EXCEPT !.config_overrides = prepend_config_flags(@, root_config_overrides)]

\* lines 578-586: no subcommand
DispatchNone ==
    /\ UNCHANGED notCli
    /\ cli_pc = "folded"
    /\ cli_args.subcommand = "none"
    /\ cli_interactive' = [cli_interactive EXCEPT
                              !.config_overrides = prepend_config_flags(@, cli_root)]
    /\ cli_pc' = "run_tui"
    /\ UNCHANGED <<cli_args, cli_stdin, cli_root, cli_sub, cli_out>>

\* lines 645-661: Some(Subcommand::Resume(..))
DispatchResume ==
    /\ UNCHANGED notCli
    /\ cli_pc = "folded"
    /\ cli_args.subcommand = "resume"
    /\ cli_interactive' = finalize_resume_interactive(cli_interactive, cli_root,
                              cli_args.session_id, cli_args.last, cli_args.all,
                              cli_args.sub_cli)
    /\ cli_pc' = "run_tui"
    /\ UNCHANGED <<cli_args, cli_stdin, cli_root, cli_sub, cli_out>>

\* lines 662-678: Some(Subcommand::Fork(..))
DispatchFork ==
    /\ UNCHANGED notCli
    /\ cli_pc = "folded"
    /\ cli_args.subcommand = "fork"
    /\ cli_interactive' = finalize_fork_interactive(cli_interactive, cli_root,
                              cli_args.session_id, cli_args.last, cli_args.all,
                              cli_args.sub_cli)
    /\ cli_pc' = "run_tui"
    /\ UNCHANGED <<cli_args, cli_stdin, cli_root, cli_sub, cli_out>>

\* run_interactive_tui (lines 902-930): normalise the prompt; on a dumb
\* terminal the TUI may be refused, otherwise codex_tui::run_main gets the Cli
RunInteractiveTui ==
    /\ UNCHANGED notCli
    /\ cli_pc = "run_tui"
    /\ cli_interactive' = [cli_interactive EXCEPT
                              !.prompt = IF @ # None THEN Some(normalize_prompt(@[1])) ELSE @]
    /\ \E refused \in BOOLEAN :
         IF refused
         THEN /\ cli_out' = [kind |-> "fatal"]
              /\ cli_pc' = "returned"
         ELSE /\ cli_out' = [kind |-> "tui", interactive |-> cli_interactive']
              /\ cli_pc' = "tui"
    /\ UNCHANGED <<cli_args, cli_stdin, cli_root, cli_sub>>

TuiNext ==
    \/ FoldToggles
    \/ DispatchNone
    \/ DispatchResume
    \/ DispatchFork
    \/ RunInteractiveTui

\* the options of TuiCli a user can give, at root level or after resume/fork
TuiFlags == {"prompt", "images", "model", "oss", "oss_provider", "config_profile",
             "sandbox_mode", "approval_policy", "full_auto",
             "dangerously_bypass_approvals_and_sandbox", "cwd", "web_search",
             "add_dir", "no_alt_screen"}

BoolFlags == {"oss", "full_auto", "dangerously_bypass_approvals_and_sandbox",
              "web_search", "no_alt_screen"}

VecFlags == {"images", "add_dir"}

\* the value a flag gets when given in `scope` ("root" or "sub")
FlagValue(scope, flag) ==
    IF flag \in BoolFlags THEN TRUE
    ELSE IF flag \in VecFlags THEN << <<scope, flag>> >>
    ELSE IF flag = "prompt" THEN Some(<<scope>>)
    ELSE Some(<<scope, flag>>)

\* the TuiCli clap builds when exactly `flags` are given in `scope`
TuiCliWith(scope, flags) ==
    [f \in DOMAIN DefaultTuiCli |->
        IF f \in flags THEN FlagValue(scope, f) ELSE DefaultTuiCli[f]]

\* conflicts_with_all on --dangerously-bypass-approvals-and-sandbox
ClapAccepts(flags) ==
    "dangerously_bypass_approvals_and_sandbox" \in flags
        => flags \cap {"approval_policy", "full_auto"} = {}

TuiSubcommands == {"none", "resume", "fork"}

MaxFlags == 2

FlagSlots == {"root", "sub"} \X TuiFlags

FlagsIn(scope, slots) == {f \in TuiFlags : <<scope, f>> \in slots}

\* invocations giving at most MaxFlags flags in all, before or after the
\* subcommand; a bare invocation has no flags after a subcommand
MergeFlagsInit ==
    /\ \E sub \in TuiSubcommands, slots \in KSubsets(FlagSlots, MaxFlags) :
         /\ ClapAccepts(FlagsIn("root", slots))
         /\ ClapAccepts(FlagsIn("sub", slots))
         /\ sub = "none" => FlagsIn("sub", slots) = {}
         /\ cli_args = [DefaultMultitoolCli EXCEPT
                           !.subcommand = sub,
                           !.interactive = TuiCliWith("root", FlagsIn("root", slots)),
                           !.sub_cli = TuiCliWith("sub", FlagsIn("sub", slots))]
    /\ cli_stdin = "terminal"
    /\ CliParsed

MaxOverrides == 2

OverrideNames == <<"1", "2", "3", "4">>

\* the -c entries of one scope: n entries, distinct from those of other scopes
OverrideList(scope, n) == [i \in 1..n |-> <<scope, OverrideNames[i]>>]

OverrideLists(scope) == {OverrideList(scope, n) : n \in 0..MaxOverrides}

\* prepend_config_flags and merge_interactive_cli_flags take any list in the
\* config_overrides of the subcommand-scoped struct (a public field that clap
\* skips): the lists are drawn here for the root level, the TuiCli and the
\* subcommand
OverrideOrderInit ==
    /\ \E sub \in TuiSubcommands \cup {"login"},
          root \in OverrideLists("root"), tui \in OverrideLists("tui"),
          own \in OverrideLists("sub"),
          en \in {<<>>, <<"unified_exec">>},
          dis \in {<<>>, <<"web_search_request">>, <<"no_such_feature">>} :
         cli_args = [DefaultMultitoolCli EXCEPT
                        !.subcommand = sub,
                        !.config_overrides = root,
                        !.enable = en,
                        !.disable = dis,
                        !.interactive = [DefaultTuiCli EXCEPT !.config_overrides = tui],
                        !.sub_cli = [DefaultTuiCli EXCEPT
                                        !.config_overrides =
                                            IF sub \in {"resume", "fork"} THEN own ELSE <<>>],
                        !.login = [DefaultLoginCommand EXCEPT
                                      !.config_overrides =
                                          IF sub = "login" THEN own ELSE <<>>]]
    /\ cli_stdin = "terminal"
    /\ CliParsed

OverrideOrderNext ==
    \/ FoldToggles
    \/ DispatchNone
    \/ DispatchResume
    \/ DispatchFork
    \/ DispatchLogin
    \/ RunInteractiveTui

SessionIds == {None, Some("1234")}

\* what clap accepts for resume / fork: fork's --last conflicts with its
\* session id (line 227), resume's does not (lines 206-208)
SessionArgsAccepted(sub, session_id, last) ==
    sub = "fork" => ~(last /\ session_id # None)

FinalizeInit ==
    /\ \E sub \in TuiSubcommands, session_id \in SessionIds, last \in BOOLEAN,
          show_all \in BOOLEAN, prompt \in {None, Some(<<"h", "i">>)},
          model \in {None, Some("gpt-5.1-test")},
          en \in {<<>>, <<"unified_exec">>, <<"no_such_feature">>} :
         /\ sub = "none" => (session_id = None /\ ~last /\ ~show_all)
         /\ SessionArgsAccepted(sub, session_id, last)
         /\ cli_args = [DefaultMultitoolCli EXCEPT
                           !.subcommand = sub,
                           !.session_id = session_id,
                           !.last = last,
                           !.all = show_all,
                           !.enable = en,
                           !.interactive = [DefaultTuiCli EXCEPT !.model = model],
                           !.sub_cli = [DefaultTuiCli EXCEPT
                                           !.prompt = IF sub = "none" THEN None ELSE prompt]]
    /\ cli_stdin = "terminal"
    /\ CliParsed

----------------------------------------------------------------------------
(* exec/src/cli.rs: the arguments of exec resume.  clap fills ResumeArgsRaw  *)
(* from the command line, the first positional into session_id and the       *)
(* second into prompt; From<ResumeArgsRaw> reinterprets them.                *)

PositionalValues == {"1234", "2+2", "-"}

\* at most two positionals: session_id and prompt (lines 119-122, 141-143)
Positionals ==
    {<<>>} \cup {<<a>> : a \in PositionalValues}
           \cup {<<a, b>> : a \in PositionalValues, b \in PositionalValues}

ResumeMatches ==
    [positionals : Positionals, last : BOOLEAN, all : BOOLEAN,
     images : {<<>>, <<"a.png">>, <<"a.png", "b.png">>}]

\* ResumeArgsRaw::from_arg_matches (the derive on lines 115-144)
ResumeArgsRaw(matches) ==
    [session_id |-> IF Len(matches.positionals) >= 1
                    THEN Some(matches.positionals[1]) ELSE None,
     last |-> matches.last,
     all |-> matches.all,
     images |-> matches.images,
     prompt |-> IF Len(matches.positionals) >= 2
                THEN Some(matches.positionals[2]) ELSE None]

\* the conversion without the reinterpretation of the positional
resume_args_from_raw_unchanged(raw) == raw

\* impl From<ResumeArgsRaw> for ResumeArgs (lines 166-183)
resume_args_from(raw) ==
    LET pair == IF raw.last /\ raw.prompt = None
                THEN <<None, raw.session_id>>
                ELSE <<raw.session_id, raw.prompt>>
    IN [session_id |-> pair[1],
        last |-> raw.last,
        all |-> raw.all,
        images |-> raw.images,
        prompt |-> pair[2]]

\* FromArgMatches for ResumeArgs (lines 195-205)
from_arg_matches(matches) == resume_args_from(ResumeArgsRaw(matches))

ResumeArgsInit ==
    /\ fn_in \in ResumeMatches
    /\ FnCalled

FromArgMatches ==
    /\ UNCHANGED notFn
    /\ fn_pc = "called"
    /\ fn_out' = Returned(from_arg_matches(fn_in))
    /\ fn_pc' = "returned"
    /\ UNCHANGED fn_in

ResumeArgsNext == FromArgMatches

----------------------------------------------------------------------------
(* mac.rs: parse_hdiutil_attach_mount_point.  The output of hdiutil is a     *)
(* sequence of characters; VOL stands for the substring "/Volumes/" and "x"  *)
(* for any character that is neither whitespace nor part of that substring.  *)

MaxOutputLen == 5

VOL == "/Volumes/"
TAB == "TAB"
SP == " "

OutputChars == {VOL, "x", SP, TAB, LF}

Outputs == UNION {[1..n -> OutputChars] : n \in 0..MaxOutputLen}

is_whitespace(c) == c \in {SP, TAB, LF}

RECURSIVE split_lines(_)
\* the pieces of s between line feeds
split_lines(s) ==
    IF \A i \in DOMAIN s : s[i] # LF THEN <<s>>
    ELSE LET i == CHOOSE j \in DOMAIN s : s[j] = LF /\ \A k \in 1..(j - 1) : s[k] # LF
         IN <<SubSeq(s, 1, i - 1)>> \o split_lines(SubSeq(s, i + 1, Len(s)))

\* str::lines: split at line feeds, no empty last line
lines(s) ==
    LET pieces == split_lines(s)
    IN IF pieces[Len(pieces)] = <<>> THEN SubSeq(pieces, 1, Len(pieces) - 1) ELSE pieces

\* line.contains("/Volumes/")
contains_volumes(line) == \E i \in DOMAIN line : line[i] = VOL

\* field.starts_with("/Volumes/")
starts_with_volumes(field) == field # <<>> /\ field[1] = VOL

\* line.rsplit_once('\t'): what follows the last tab, None without a tab
rsplit_once_tab(line) ==
    IF \A i \in DOMAIN line : line[i] # TAB THEN None
    ELSE LET i == CHOOSE j \in DOMAIN line : line[j] = TAB /\ \A k \in (j + 1)..Len(line) : line[k] # TAB
         IN Some(SubSeq(line, i + 1, Len(line)))

\* str::trim
trim(s) ==
    IF \A i \in DOMAIN s : is_whitespace(s[i]) THEN <<>>
    ELSE LET first == CHOOSE i \in DOMAIN s :
                          ~is_whitespace(s[i]) /\ \A k \in 1..(i - 1) : is_whitespace(s[k])
             last == CHOOSE i \in DOMAIN s :
                         ~is_whitespace(s[i]) /\ \A k \in (i + 1)..Len(s) : is_whitespace(s[k])
         IN SubSeq(s, first, last)

RECURSIVE split_whitespace(_)
\* str::split_whitespace: the maximal runs without whitespace, in order
split_whitespace(s) ==
    IF \A i \in DOMAIN s : is_whitespace(s[i]) THEN <<>>
    ELSE LET first == CHOOSE i \in DOMAIN s :
                          ~is_whitespace(s[i]) /\ \A k \in 1..(i - 1) : is_whitespace(s[k])
             end == CHOOSE j \in first..Len(s) :
                        /\ \A k \in first..j : ~is_whitespace(s[k])
                        /\ (j = Len(s) \/ is_whitespace(s[j + 1]))
         IN <<SubSeq(s, first, end)>> \o split_whitespace(SubSeq(s, end + 1, Len(s)))

\* Iterator::find on a sequence
find_first(seq, P(_)) ==
    IF \A i \in DOMAIN seq : ~P(seq[i]) THEN None
    ELSE Some(seq[CHOOSE i \in DOMAIN seq : P(seq[i]) /\ \A k \in 1..(i - 1) : ~P(seq[k])])

\* the closure of find_map (lines 247-256) applied to one line
mount_point_in_line(line) ==
    IF ~contains_volumes(line) THEN None
    ELSE IF rsplit_once_tab(line) # None THEN Some(trim(rsplit_once_tab(line)[1]))
    ELSE find_first(split_whitespace(line), starts_with_volumes)

\* parse_hdiutil_attach_mount_point (lines 245-257): find_map over the lines
parse_hdiutil_attach_mount_point(output) ==
    LET found(line) == mount_point_in_line(line) # None
        hit == find_first(lines(output), found)
    IN IF hit = None THEN None ELSE mount_point_in_line(hit[1])

ParseMountPointInit ==
    /\ fn_in \in Outputs
    /\ FnCalled

ParseMountPoint ==
    /\ UNCHANGED notFn
    /\ fn_pc = "called"
    /\ fn_out' = Returned(parse_hdiutil_attach_mount_point(fn_in))
    /\ fn_pc' = "returned"
    /\ UNCHANGED fn_in

ParseMountPointNext == ParseMountPoint

MaxPromptLen == 3

PromptChars == {"a", CR, LF}

\* no prompt, or a prompt of at most MaxPromptLen characters
Prompts == {None} \cup {Some(p) : p \in UNION {[1..n -> PromptChars] : n \in 0..MaxPromptLen}}

PromptInit ==
    /\ \E sub \in TuiSubcommands, root_prompt \in Prompts, sub_prompt \in Prompts :
         /\ sub = "none" => sub_prompt = None
         /\ cli_args = [DefaultMultitoolCli EXCEPT
                           !.subcommand = sub,
                           !.interactive = [DefaultTuiCli EXCEPT !.prompt = root_prompt],
                           !.sub_cli = [DefaultTuiCli EXCEPT !.prompt = sub_prompt]]
    /\ cli_stdin = "terminal"
    /\ CliParsed

----------------------------------------------------------------------------
(* exec/src/event_processor.rs: handle_last_message.  The output file is    *)
(* None when it does not exist, else Some(content); a message and a content *)
(* are sequences of characters.                                             *)

MaxMessageLen == 3

Messages == UNION {[1..n -> {"a", "b"}] : n \in 0..MaxMessageLen}

LastAgentMessages == {None} \cup {Some(m) : m \in Messages}

FilesBefore == {None, Some(<<>>), Some(<<"o", "l", "d">>)}

\* std::fs::write(path, contents): on success the file holds the contents; on
\* failure the file was not opened (left as it was) or was truncated and
\* holds a proper prefix of the contents
FsWriteOutcomes(contents, before) ==
    {[ok |-> TRUE, file |-> Some(contents)]}
    \cup {[ok |-> FALSE, file |-> before]}
    \cup {[ok |-> FALSE, file |-> Some(SubSeq(contents, 1, n))] : n \in 0..(Len(contents) - 1)}

\* write_last_message_file with the result of the write unwrapped
write_last_message_file_unwrapping(contents, last_message_path, outcome) ==
    IF last_message_path # None /\ ~outcome.ok
    THEN [panicked |-> TRUE, stderr |-> <<>>]
    ELSE [panicked |-> FALSE, stderr |-> <<>>]

\* write_last_message_file (lines 39-45): a failed write is only reported
write_last_message_file(contents, last_message_path, outcome) ==
    IF last_message_path # None /\ ~outcome.ok
    THEN [panicked |-> FALSE, stderr |-> <<"write failed">>]
    ELSE [panicked |-> FALSE, stderr |-> <<>>]

\* Option::unwrap_or_default on Option<&str>
unwrap_or_default(opt) == IF opt = None THEN <<>> ELSE opt[1]

\* handle_last_message (lines 28-37); outcome is what std::fs::write did
handle_last_message(last_agent_message, output_file, outcome) ==
    LET message == unwrap_or_default(last_agent_message)
        written == write_last_message_file(message, Some(output_file), outcome)
    IN IF written.panicked THEN Panic
       ELSE Returned([file |-> outcome.file,
                      stderr |-> written.stderr
                                 \o IF last_agent_message = None
                                    THEN <<"warning: no last agent message">> ELSE <<>>,
                      write_ok |-> outcome.ok])

LastMessageInit ==
    /\ fn_in \in [last_agent_message : LastAgentMessages, file : FilesBefore]
    /\ FnCalled

HandleLastMessage ==
    /\ UNCHANGED notFn
    /\ fn_pc = "called"
    /\ \E outcome \in FsWriteOutcomes(unwrap_or_default(fn_in.last_agent_message), fn_in.file) :
         fn_out' = handle_last_message(fn_in.last_agent_message, "output_file", outcome)
    /\ fn_pc' = "returned"
    /\ UNCHANGED fn_in

LastMessageNext == HandleLastMessage

----------------------------------------------------------------------------
(* core/src/models_manager/model_presets.rs: the table of built-in model    *)
(* presets.  The description texts (of the presets, of the reasoning        *)
(* efforts and of the upgrade) are left out; an upgrade is its id.          *)

MaxCalls == 4

\* AuthMode has the variants matched in login.rs; the argument is optional
AuthModes == {None, Some("ApiKey"), Some("Chatgpt")}

\* static PRESETS (lines 13-319)
PRESETS ==
    << [id |-> "gpt-5.2-codex", model |-> "gpt-5.2-codex", display_name |-> "gpt-5.2-codex",
        default_reasoning_effort |-> "Medium",
        supported_reasoning_efforts |-> <<"Low", "Medium", "High", "XHigh">>,
        supports_personality |-> TRUE, is_default |-> TRUE, upgrade |-> None,
        show_in_picker |-> TRUE, supported_in_api |-> TRUE],
       [id |-> "gpt-5.1-codex-max", model |-> "gpt-5.1-codex-max", display_name |-> "gpt-5.1-codex-max",
        default_reasoning_effort |-> "Medium",
        supported_reasoning_efforts |-> <<"Low", "Medium", "High", "XHigh">>,
        supports_personality |-> FALSE, is_default |-> FALSE, upgrade |-> Some("gpt-5.2-codex"),
        show_in_picker |-> TRUE, supported_in_api |-> TRUE],
       [id |-> "gpt-5.1-codex-mini", model |-> "gpt-5.1-codex-mini", display_name |-> "gpt-5.1-codex-mini",
        default_reasoning_effort |-> "Medium",
        supported_reasoning_efforts |-> <<"Medium", "High">>,
        supports_personality |-> FALSE, is_default |-> FALSE, upgrade |-> Some("gpt-5.2-codex"),
        show_in_picker |-> TRUE, supported_in_api |-> TRUE],
       [id |-> "gpt-5.2", model |-> "gpt-5.2", display_name |-> "gpt-5.2",
        default_reasoning_effort |-> "Medium",
        supported_reasoning_efforts |-> <<"Low", "Medium", "High", "XHigh">>,
        supports_personality |-> FALSE, is_default |-> FALSE, upgrade |-> Some("gpt-5.2-codex"),
        show_in_picker |-> TRUE, supported_in_api |-> TRUE],
       [id |-> "bengalfox", model |-> "bengalfox", display_name |-> "bengalfox",
        default_reasoning_effort |-> "Medium",
        supported_reasoning_efforts |-> <<"Low", "Medium", "High", "XHigh">>,
        supports_personality |-> TRUE, is_default |-> FALSE, upgrade |-> None,
        show_in_picker |-> FALSE, supported_in_api |-> TRUE],
       [id |-> "boomslang", model |-> "boomslang", display_name |-> "boomslang",
        default_reasoning_effort |-> "Medium",
        supported_reasoning_efforts |-> <<"Low", "Medium", "High", "XHigh">>,
        supports_personality |-> FALSE, is_default |-> FALSE, upgrade |-> None,
        show_in_picker |-> FALSE, supported_in_api |-> TRUE],
       [id |-> "gpt-5-codex", model |-> "gpt-5-codex", display_name |-> "gpt-5-codex",
        default_reasoning_effort |-> "Medium",
        supported_reasoning_efforts |-> <<"Low", "Medium", "High">>,
        supports_personality |-> FALSE, is_default |-> FALSE, upgrade |-> Some("gpt-5.2-codex"),
        show_in_picker |-> FALSE, supported_in_api |-> TRUE],
       [id |-> "gpt-5-codex-mini", model |-> "gpt-5-codex-mini", display_name |-> "gpt-5-codex-mini",
        default_reasoning_effort |-> "Medium",
        supported_reasoning_efforts |-> <<"Medium", "High">>,
        supports_personality |-> FALSE, is_default |-> FALSE, upgrade |-> Some("gpt-5.2-codex"),
        show_in_picker |-> FALSE, supported_in_api |-> TRUE],
       [id |-> "gpt-5.1-codex", model |-> "gpt-5.1-codex", display_name |-> "gpt-5.1-codex",
        default_reasoning_effort |-> "Medium",
        supported_reasoning_efforts |-> <<"Low", "Medium", "High">>,
        supports_personality |-> FALSE, is_default |-> FALSE, upgrade |-> Some("gpt-5.2-codex"),
        show_in_picker |-> FALSE, supported_in_api |-> TRUE],
       [id |-> "gpt-5", model |-> "gpt-5", display_name |-> "gpt-5",
        default_reasoning_effort |-> "Medium",
        supported_reasoning_efforts |-> <<"Minimal", "Low", "Medium", "High">>,
        supports_personality |-> FALSE, is_default |-> FALSE, upgrade |-> Some("gpt-5.2-codex"),
        show_in_picker |-> FALSE, supported_in_api |-> TRUE],
       [id |-> "gpt-5.1", model |-> "gpt-5.1", display_name |-> "gpt-5.1",
        default_reasoning_effort |-> "Medium",
        supported_reasoning_efforts |-> <<"Low", "Medium", "High">>,
        supports_personality |-> FALSE, is_default |-> FALSE, upgrade |-> Some("gpt-5.2-codex"),
        show_in_picker |-> FALSE, supported_in_api |-> TRUE] >>
\* the presets offered in the picker only
builtin_model_presets_in_picker(auth_mode) == SelectSeq(PRESETS, LAMBDA p : p.show_in_picker)

\* builtin_model_presets (lines 344-346): PRESETS.iter().cloned().collect()
builtin_model_presets(auth_mode) == [i \in DOMAIN PRESETS |-> PRESETS[i]]

\* fn_in: the auth modes of the calls made so far; fn_pc: whether the Lazy
\* table has been forced; fn_out: what the last call returned
PresetsInit ==
    /\ fn_in = <<>>
    /\ fn_pc = "uninitialized"
    /\ fn_out = None

BuiltinModelPresets ==
    /\ UNCHANGED notFn
    /\ Len(fn_in) < MaxCalls
    /\ \E auth_mode \in AuthModes :
         /\ fn_in' = Append(fn_in, auth_mode)
         /\ fn_out' = Some(builtin_model_presets(auth_mode))
    /\ fn_pc' = "initialized"

PresetsNext == BuiltinModelPresets

----------------------------------------------------------------------------
(* The specifications: one per component, the others idle                   *)

\* the idle values of the later components, but for the one that runs
LaterIdleBut(component) ==
    /\ IF component = "fallback" THEN TRUE ELSE FallbackIdle
    /\ IF component = "cli" THEN TRUE ELSE CliIdle
    /\ IF component = "fn" THEN TRUE ELSE FnIdle

LaterIdle == LaterIdleBut("none")


InitMac == MacInit /\ FeatIdle /\ GhostIdle /\ LoginIdle /\ LaterIdle

SpecMac == InitMac /\ [][MacNext]_vars

InitFeatures == FeatInit /\ MacIdle /\ GhostIdle /\ LoginIdle /\ LaterIdle

SpecFeatures == InitFeatures /\ [][FeatNext]_vars

InitFromConfig == ConfigInit /\ MacIdle /\ GhostIdle /\ LoginIdle /\ LaterIdle

SpecFromConfig == InitFromConfig /\ [][ConfigNext]_vars

InitGhost == GhostInit /\ MacIdle /\ FeatIdle /\ LoginIdle /\ LaterIdle

SpecGhost == InitGhost /\ [][GhostNext]_vars

\* the snapshot task is scheduled whenever it can take a step; nothing makes
\* the blocking snapshot finish, the token fire or the timer elapse
SpecGhostFair == InitGhost /\ [][GhostNext]_vars /\ WF_vars(GhostTaskStep)

InitLogin == LoginInit /\ MacIdle /\ FeatIdle /\ GhostIdle /\ LaterIdle

SpecLogin == InitLogin /\ [][LoginNext]_vars

InitFallback == FallbackInit /\ MacIdle /\ FeatIdle /\ GhostIdle /\ LaterIdleBut("fallback")

SpecFallback == InitFallback /\ [][FallbackNext]_vars

InitLoginCommand ==
    LoginCommandInit /\ MacIdle /\ FeatIdle /\ GhostIdle /\ LoginIdle /\ LaterIdleBut("cli")

SpecLoginCommand == InitLoginCommand /\ [][LoginCommandNext]_vars

InitSafeFormatKey ==
    SafeFormatKeyInit /\ MacIdle /\ FeatIdle /\ GhostIdle /\ LoginIdle /\ LaterIdleBut("fn")

SpecSafeFormatKey == InitSafeFormatKey /\ [][SafeFormatKeyNext]_vars

InitToOverrides ==
    ToOverridesInit /\ MacIdle /\ FeatIdle /\ GhostIdle /\ LoginIdle /\ LaterIdleBut("cli")

SpecToOverrides == InitToOverrides /\ [][ToOverridesNext]_vars

InitMergeFlags ==
    MergeFlagsInit /\ MacIdle /\ FeatIdle /\ GhostIdle /\ LoginIdle /\ LaterIdleBut("cli")

SpecMergeFlags == InitMergeFlags /\ [][TuiNext]_vars

InitOverrideOrder ==
    OverrideOrderInit /\ MacIdle /\ FeatIdle /\ GhostIdle /\ LoginIdle /\ LaterIdleBut("cli")

SpecOverrideOrder == InitOverrideOrder /\ [][OverrideOrderNext]_vars

InitFinalize ==
    FinalizeInit /\ MacIdle /\ FeatIdle /\ GhostIdle /\ LoginIdle /\ LaterIdleBut("cli")

SpecFinalize == InitFinalize /\ [][TuiNext]_vars

InitResumeArgs ==
    ResumeArgsInit /\ MacIdle /\ FeatIdle /\ GhostIdle /\ LoginIdle /\ LaterIdleBut("fn")

SpecResumeArgs == InitResumeArgs /\ [][ResumeArgsNext]_vars

InitParseMountPoint ==
    ParseMountPointInit /\ MacIdle /\ FeatIdle /\ GhostIdle /\ LoginIdle /\ LaterIdleBut("fn")

SpecParseMountPoint == InitParseMountPoint /\ [][ParseMountPointNext]_vars

InitPrompt ==
    PromptInit /\ MacIdle /\ FeatIdle /\ GhostIdle /\ LoginIdle /\ LaterIdleBut("cli")

SpecPrompt == InitPrompt /\ [][TuiNext]_vars

InitLastMessage ==
    LastMessageInit /\ MacIdle /\ FeatIdle /\ GhostIdle /\ LoginIdle /\ LaterIdleBut("fn")

SpecLastMessage == InitLastMessage /\ [][LastMessageNext]_vars

InitPresets ==
    PresetsInit /\ MacIdle /\ FeatIdle /\ GhostIdle /\ LoginIdle /\ LaterIdleBut("fn")

SpecPresets == InitPresets /\ [][PresetsNext]_vars

----------------------------------------------------------------------------
(* Claims about the desktop-app flow, checked under SpecMac                 *)

\* download_and_install_codex_to_user_applications has returned (its caller
\* is at the `?` of line 22 or past it)
DownloadReturned == mac_pc \in {"open_installed", "done"}

AttachExitedOk == \E i \in DOMAIN cmds :
                      cmds[i].cmd = "hdiutil attach" /\ cmds[i].out = "ok"

\* C1 as stated: once `hdiutil attach` has succeeded, `hdiutil detach` is
\* attempted exactly once before the function returns, on every path.
C1_DetachAfterEveryAttach ==
    (DownloadReturned /\ AttachExitedOk) => CmdCount("hdiutil detach") = 1

\* C1 amended: once mount_dmg has returned a mount point (hdiutil attach exited
\* successfully and a mount point was parsed from its output), hdiutil detach
\* is attempted exactly once, on that mount point, before the function
\* returns (and so before any `open` of the installed app); it is never
\* attempted without a mount point and never twice.
C1_DetachOncePerMount ==
    /\ CmdCount("hdiutil detach") <= 1
    /\ \A i \in DOMAIN cmds :
         cmds[i].cmd = "hdiutil detach" =>
            /\ mount_point # NoPath
            /\ cmds[i].arg = mount_point
            /\ \A j \in DOMAIN cmds : cmds[j].cmd = "open" => i < j
    /\ (DownloadReturned /\ mount_point # NoPath) => CmdCount("hdiutil detach") = 1

\* the copy failed in every candidate directory and the image was detached
C1_Witness ==
    /\ mac_pc = "done"
    /\ Len(warnings) >= 2
    /\ warnings[1].kind = "install" /\ warnings[2].kind = "install"
    /\ CmdCount("hdiutil detach") = 1

DetachWarned == \E i \in DOMAIN warnings : warnings[i].kind = "detach"

\* C2: a detach failure is never fatal: what the function returns is exactly
\* the result of the locate-and-install block, whatever detach did; a detach
\* failure produces a warning and nothing else.
C2_DetachNeverFatal ==
    \A i \in DOMAIN cmds :
        cmds[i].cmd = "hdiutil detach" =>
            /\ download_result = install_result
            /\ DetachWarned <=> cmds[i].out # "ok"

\* detach failed, yet the install result Ok(path) was returned and opened
C2_Witness ==
    /\ mac_pc = "done"
    /\ \E i \in DOMAIN cmds : cmds[i].cmd = "hdiutil detach" /\ cmds[i].out = "exit_fail"
    /\ download_result.ok
    /\ run_result.ok

Propagated == {"curl", "hdiutil attach", "open"}

\* the propagated error names command c, and carries its exit status exactly
\* when the command ran and exited unsuccessfully
ErrorNames(r, c, out) ==
    /\ ~r.ok
    /\ r.cmd = c
    /\ r.status <=> (out = "exit_fail")

\* C3 as stated: every external command failure (curl, hdiutil attach,
\* hdiutil detach, ditto, open) is surfaced as a propagated error of
\* run_mac_app_open_or_install naming the offending command (and its exit
\* status, where the command ran and so has one).
C3_EveryFailurePropagated ==
    mac_pc = "done" =>
        \A i \in DOMAIN cmds :
            cmds[i].out # "ok" => ErrorNames(run_result, cmds[i].cmd, cmds[i].out)

\* C3 amended: a failure of curl, hdiutil attach or open is propagated as the
\* error of run_mac_app_open_or_install, naming the command and, when it
\* exited unsuccessfully, its exit status.  A failure of hdiutil detach or of
\* ditto is only printed as a warning naming the command (and exit status):
\* it is never the error the function returns.
C3_FailuresPropagatedOrWarned ==
    mac_pc = "done" =>
        \A i \in DOMAIN cmds :
            cmds[i].out # "ok" =>
                IF cmds[i].cmd \in Propagated
                THEN ErrorNames(run_result, cmds[i].cmd, cmds[i].out)
                ELSE /\ \E w \in DOMAIN warnings :
                            ErrorNames(warnings[w].err, cmds[i].cmd, cmds[i].out)
                     /\ run_result.cmd # cmds[i].cmd

\* curl exited unsuccessfully and the run ended with the error naming curl
C3_Witness ==
    /\ mac_pc = "done"
    /\ Len(cmds) = 1
    /\ cmds[1] = Cmd("curl", "Codex.dmg", "exit_fail")
    /\ ErrorNames(run_result, "curl", "exit_fail")

Installers == {"curl", "hdiutil attach", "hdiutil detach", "ditto"}

SomeAppInstalled ==
    \/ appIsDir["/Applications/Codex.app"]
    \/ homeSet /\ appIsDir["$HOME/Applications/Codex.app"]

FirstInstalledApp ==
    IF appIsDir["/Applications/Codex.app"] THEN "/Applications/Codex.app"
    ELSE "$HOME/Applications/Codex.app"

\* C4: if Codex.app exists in a candidate location, the first existing one
\* (/Applications, then $HOME/Applications) is opened and curl, hdiutil and
\* ditto are never invoked; the download path is entered only when neither
\* exists.
C4_OpenExistingFirst ==
    /\ SomeAppInstalled =>
          /\ \A i \in DOMAIN cmds :
                cmds[i].cmd = "open" /\ cmds[i].arg = FirstInstalledApp
          /\ mac_pc \in {"start", "open_existing", "done"}
          /\ mac_pc = "done" => Len(cmds) = 1
    /\ (\E i \in DOMAIN cmds : cmds[i].cmd \in Installers) => ~SomeAppInstalled

\* both candidates exist and /Applications/Codex.app was the one opened
C4_Witness ==
    /\ mac_pc = "done"
    /\ homeSet
    /\ appIsDir["/Applications/Codex.app"]
    /\ appIsDir["$HOME/Applications/Codex.app"]
    /\ cmds = <<Cmd("open", "/Applications/Codex.app", "ok")>>

\* a candidate Applications directory the bundle can be installed into
CanInstallInto(i) ==
    /\ i = 2 => homeSet
    /\ mkdirOk[AllAppsDirs[i]]
    /\ dittoOut[AllAppsDirs[i]] = "ok"

\* C5 as stated: install_codex_app_bundle installs into the first candidate
\* directory (/Applications, then $HOME/Applications) that can be written and
\* returns that Codex.app path; it returns an error only when no candidate
\* directory can be installed into.
C5_InstallsIntoFirstWritable ==
    (install_called /\ install_result # Pending) =>
        LET w == {i \in DOMAIN AllAppsDirs : CanInstallInto(i)} IN
        IF w = {} THEN ~install_result.ok
        ELSE install_result =
                Ok(CodexAppIn(AllAppsDirs[CHOOSE i \in w : \A j \in w : i <= j]))

----------------------------------------------------------------------------
(* Claims about Features::from_config, checked under SpecFromConfig         *)

\* the sources of from_config in the order the claim gives them (defaults
\* come before all of them)
SourceOrder == <<"cfg", "cfg.features", "profile", "profile.features", "overrides">>

\* the feature a mention is about, None for an unknown table key
SlotFeature(slot) ==
    IF slot[1] \in {"cfg.features", "profile.features"}
    THEN feature_for_key(slot[2])
    ELSE CASE slot[2] \in {"include_apply_patch_tool",
                           "experimental_use_freeform_apply_patch"} -> Some("ApplyPatchFreeform")
           [] slot[2] = "experimental_use_unified_exec_tool" -> Some("UnifiedExec")
           [] OTHER -> Some("WebSearchRequest")

SourceIdx(src) == CHOOSE i \in DOMAIN SourceOrder : SourceOrder[i] = src

\* C6: the sources are applied in the order defaults, base legacy keys, base
\* [features] table, profile legacy keys, profile [features] table, explicit
\* overrides: every feature ends up with a value given by the last source
\* that mentions it, and with its default_enabled when no source mentions it.
C6_LastSourceWins ==
    f_phase = "configured" =>
        LET about == [slot \in DOMAIN c_in |-> SlotFeature(slot)] IN
        \A f \in Feature :
            LET mentions == {slot \in DOMAIN c_in : about[slot] = Some(f)} IN
            IF mentions = {}
            THEN enabled(features, f) = default_enabled(f)
            ELSE LET last == Max({SourceIdx(slot[1]) : slot \in mentions})
                 IN enabled(features, f) \in
                        {c_in[slot] : slot \in {x \in mentions : SourceIdx(x[1]) = last}}

\* the base table and the profile disagree about unified_exec and the
\* profile, the later of the two, decided it; shell_tool, which no source
\* mentions, kept its default
C6_Witness ==
    /\ f_phase = "configured"
    /\ DOMAIN c_in = {<<"cfg.features", "unified_exec">>,
                      <<"profile", "experimental_use_unified_exec_tool">>}
    /\ c_in[<<"cfg.features", "unified_exec">>]
    /\ ~c_in[<<"profile", "experimental_use_unified_exec_tool">>]
    /\ ~enabled(features, "UnifiedExec")
    /\ enabled(features, "ShellTool")

----------------------------------------------------------------------------
(* Claims about the registry and apply_map, checked under SpecFeatures      *)

\* C7: FEATURES holds exactly one FeatureSpec for every Feature variant and
\* no two entries share a key, so Feature::info never reaches unreachable!
\* and the lookup of a canonical key yields exactly one feature, the one
\* whose key it is.
C7_RegistryComplete ==
    /\ \A f \in Feature : Cardinality({i \in DOMAIN FEATURES : FEATURES[i].id = f}) = 1
    /\ \A i \in DOMAIN FEATURES : FEATURES[i].id \in Feature
    /\ \A i, j \in DOMAIN FEATURES : FEATURES[i].key = FEATURES[j].key => i = j
    /\ f_last.op = "info" =>
          /\ f_last.res # Unreachable
          /\ f_last.res.id = f_last.arg
    /\ (f_last.op = "feature_for_key" /\ f_last.arg \in CanonicalKeys) =>
          /\ f_last.res # None
          /\ {f \in Feature : key(f) = f_last.arg} = {f_last.res[1]}

\* info was called on the variant declared last and found its entry
C7_Witness ==
    /\ f_last.op = "info"
    /\ f_last.arg = "ResponsesWebsockets"
    /\ f_last.res.key = "responses_websockets"

IsAlias(k) == \E i \in DOMAIN ALIASES : ALIASES[i].legacy_key = k

\* the session's deprecation notices: one for every legacy usage, naming the alias
DeprecationNotices(feats) == {u.alias : u \in feats.legacy_usages}

C8_AliasWitness ==
    /\ f_last.op = "apply_map"
    /\ DOMAIN f_last.arg = {"include_apply_patch_tool"}
    /\ enabled(features, "ApplyPatchFreeform")
    /\ LegacyFeatureUsage("include_apply_patch_tool", "ApplyPatchFreeform")
           \in features.legacy_usages

----------------------------------------------------------------------------
(* Claims about the ghost-snapshot task, checked under SpecGhost            *)

SlowWarnings == Cardinality({i \in DOMAIN g_events : g_events[i] = "slow_snapshot_warning"})

\* C9 as stated: the "snapshot is taking longer than expected" warning is
\* emitted at most once per task, and never after the snapshot task has sent
\* its completion signal or after the cancellation token has fired.
C9_NoLateWarning ==
    [][ SlowWarnings' > SlowWarnings =>
            /\ SlowWarnings = 0
            /\ ~g_done_sent
            /\ ~g_cancel ]_vars

----------------------------------------------------------------------------
(* Claims about the login-family handlers, checked under SpecLogin          *)

\* the handler's operation succeeded: the login completed, the status check
\* found readable stored credentials, the logout completed
OperationSucceeded ==
    l_op \in {"Ok", "Ok(Some(ApiKey)),get_token=Ok", "Ok(Some(Chatgpt))",
              "Ok(true)", "Ok(false)"}

C10_LogoutWitness ==
    /\ l_pc = "exited"
    /\ l_handler = "run_logout"
    /\ l_op = "Ok(false)"
    /\ l_exit = 0

----------------------------------------------------------------------------
(* Claims about the device-code login with browser fallback, checked under  *)
(* SpecFallback                                                             *)

\* C11: the local browser login server is started only after the device-code
\* login returned an error of kind NotFound (and then it is always attempted);
\* when the device-code login succeeds the process exits 0 without the
\* server, and for any other device-code error it exits 1 without the server.
C11_FallbackOnlyOnNotFound ==
    /\ fb_server # "not_called" => fb_device = "Err(NotFound)"
    /\ (fb_device = "Err(NotFound)" /\ l_pc \in {"serving", "exited"})
          => fb_server # "not_called"
    /\ fb_device = "Ok"
          => l_pc = "exited" /\ l_exit = 0 /\ fb_server = "not_called"
    /\ fb_device \in {"Err(PermissionDenied)", "Err(Other)"}
          => l_pc = "exited" /\ l_exit = 1 /\ fb_server = "not_called"
    /\ l_pc = "fallback" => l_exit = Running

\* device-code login is not supported, the browser login then completes
C11_Witness ==
    /\ fb_device = "Err(NotFound)"
    /\ fb_server = "started"
    /\ l_pc = "exited"
    /\ l_op = "Ok"
    /\ l_exit = 0

----------------------------------------------------------------------------
(* Claims about the `login` subcommand, checked under SpecLoginCommand      *)

\* some login is performed, or about to be: a login handler was called or the
\* key is being read from standard input
LoginAttempted ==
    \/ cli_pc = "read_stdin"
    \/ /\ cli_out.kind = "handler"
       /\ cli_out.handler \in {"run_login_with_chatgpt", "run_login_with_api_key",
                               "run_login_with_device_code"}

\* C12 as stated: with --api-key given, `login` (no `status` subcommand) exits
\* with status 1 and the hint to use --with-api-key, without performing any
\* login, whichever other login flags accompany it.
C12_ApiKeyFlagAlwaysRejected ==
    (/\ cli_args.login.api_key # None
     /\ cli_args.login.action = None
     /\ cli_pc \notin {"parsed", "folded", "returned"})
        => /\ cli_out = Exit(1, <<ApiKeyHint>>)
           /\ ~LoginAttempted

----------------------------------------------------------------------------
(* Claims about safe_format_key, checked under SpecSafeFormatKey            *)

\* the characters of the key that the result shows
Shown(result) == {result[i] : i \in DOMAIN result} \ {Star}

\* C13 as stated: for a key of at most 13 characters the result is exactly
\* "***"; for a longer key it is the first 8 characters, then "***", then the
\* last 5 characters; so at least one character of the key is withheld.
C13_KeyMasked ==
    fn_pc = "returned" =>
        /\ fn_out.ok
        /\ Len(fn_in) <= 13 => fn_out.val = Stars
        /\ Len(fn_in) > 13 =>
              fn_out.val = SubSeq(Chars(fn_in), 1, 8) \o Stars
                           \o SubSeq(Chars(fn_in), Len(fn_in) - 4, Len(fn_in))
        /\ fn_in # <<>> => \E i \in DOMAIN fn_in : Chars(fn_in)[i] \notin Shown(fn_out.val)

----------------------------------------------------------------------------
(* Claims about --enable / --disable, checked under SpecToOverrides         *)

\* a known feature key: the key of a registry entry or a legacy alias
KnownFeatureKey(name) ==
    \/ \E i \in DOMAIN FEATURES : FEATURES[i].key = name
    \/ \E i \in DOMAIN ALIASES : ALIASES[i].legacy_key = name

AllTogglesKnown ==
    /\ \A i \in DOMAIN cli_args.enable : KnownFeatureKey(cli_args.enable[i])
    /\ \A i \in DOMAIN cli_args.disable : KnownFeatureKey(cli_args.disable[i])

UnknownToggles ==
    ({cli_args.enable[i] : i \in DOMAIN cli_args.enable}
     \cup {cli_args.disable[i] : i \in DOMAIN cli_args.disable})
    \ {name \in ToggleNames : KnownFeatureKey(name)}

\* C14: to_overrides succeeds if and only if every name given to --enable and
\* --disable is a known feature key; on success it returns
\* features.<name>=true for each --enable in the given order, followed by
\* features.<name>=false for each --disable in the given order; on failure
\* the error names an unknown feature and no override is produced.
C14_ToOverrides ==
    cli_pc # "parsed" =>
        /\ cli_pc = "folded" <=> AllTogglesKnown
        /\ cli_pc = "folded" =>
              /\ cli_out = StillRunning
              /\ cli_root = cli_args.config_overrides
                   \o [i \in 1..Len(cli_args.enable) |->
                          <<"features.", cli_args.enable[i], "=", "true">>]
                   \o [i \in 1..Len(cli_args.disable) |->
                          <<"features.", cli_args.disable[i], "=", "false">>]
        /\ cli_pc # "folded" =>
              /\ cli_pc = "returned"
              /\ cli_out.kind = "error"
              /\ ~cli_out.error.ok
              /\ cli_out.error.val \in UnknownToggles
              /\ cli_root = cli_args.config_overrides

\* --enable web_search_request --disable unified_exec
C14_Witness ==
    /\ cli_args.enable = <<"web_search_request">>
    /\ cli_args.disable = <<"unified_exec">>
    /\ cli_pc = "folded"
    /\ cli_root = cli_args.config_overrides
                    \o << <<"features.", "web_search_request", "=", "true">>,
                          <<"features.", "unified_exec", "=", "false">> >>

\* a known --enable followed by an unknown --disable: nothing is produced
C14_ErrorWitness ==
    /\ cli_args.enable = <<"unified_exec">>
    /\ cli_args.disable = <<"does_not_exist">>
    /\ cli_pc = "returned"
    /\ cli_out.error.val = "does_not_exist"

----------------------------------------------------------------------------
(* Claims about the flags given after resume / fork, checked under          *)
(* SpecMergeFlags                                                           *)

Merged == cli_pc \in {"run_tui", "tui"} /\ cli_args.subcommand \in {"resume", "fork"}

\* C15 as stated: for each TuiCli option the merged value equals the
\* subcommand's value when the flag was explicitly set on the subcommand and
\* the root-level value otherwise.
C15_SubcommandFlagsWin ==
    Merged =>
        \A f \in TuiFlags :
            cli_interactive[f] = IF cli_args.sub_cli[f] # DefaultTuiCli[f]
                                 THEN cli_args.sub_cli[f]
                                 ELSE cli_args.interactive[f]

----------------------------------------------------------------------------
(* Claims about the order of the configuration overrides, checked under     *)
(* SpecOverrideOrder                                                        *)

\* the raw_overrides handed on: to the TUI, or to the login handler
HandedOverrides ==
    IF cli_args.subcommand = "login" THEN cli_sub ELSE cli_interactive.config_overrides

OverridesHanded ==
    IF cli_args.subcommand = "login" THEN cli_pc = "handler" ELSE cli_pc \in {"run_tui", "tui"}

\* root level: the root -c entries, then the entries made from --enable, then
\* those made from --disable
RootLevelOverrides ==
    cli_args.config_overrides
    \o [i \in 1..Len(cli_args.enable) |-> <<"features.", cli_args.enable[i], "=", "true">>]
    \o [i \in 1..Len(cli_args.disable) |-> <<"features.", cli_args.disable[i], "=", "false">>]

\* scoped to the subcommand: the TuiCli's own entries and those given after
\* resume / fork, or those of the login command
SubcommandOverrides ==
    IF cli_args.subcommand = "login" THEN cli_args.login.config_overrides
    ELSE cli_args.interactive.config_overrides \o cli_args.sub_cli.config_overrides

\* C16: in the raw_overrides handed to a subcommand (and to the TUI for
\* resume/fork) every root-level override, the features.<name>=... entries
\* included, which follow the root -c entries, comes before every override
\* scoped to the subcommand, and the order inside each group is kept.
C16_RootOverridesFirst ==
    OverridesHanded => HandedOverrides = RootLevelOverrides \o SubcommandOverrides

\* resume with two root -c entries, --enable, and two entries of its own
C16_Witness ==
    /\ cli_args.subcommand = "resume"
    /\ cli_pc = "tui"
    /\ cli_out.interactive.config_overrides =
          << <<"root", "1">>, <<"root", "2">>, <<"features.", "unified_exec", "=", "true">>,
             <<"sub", "1">>, <<"sub", "2">> >>

----------------------------------------------------------------------------
(* Claims about the resume / fork selection fields, checked under           *)
(* SpecFinalize                                                             *)

Finalized == cli_pc \in {"run_tui", "tui"} /\ cli_args.subcommand \in {"resume", "fork"}

\* the four selection fields of the TuiCli for the subcommand that was given
Selection ==
    IF cli_args.subcommand = "resume"
    THEN [picker |-> cli_interactive.resume_picker,
          last |-> cli_interactive.resume_last,
          session_id |-> cli_interactive.resume_session_id,
          show_all |-> cli_interactive.resume_show_all]
    ELSE [picker |-> cli_interactive.fork_picker,
          last |-> cli_interactive.fork_last,
          session_id |-> cli_interactive.fork_session_id,
          show_all |-> cli_interactive.fork_show_all]

\* C17: after finalize_resume_interactive / finalize_fork_interactive the
\* picker flag is true exactly when no session id was given and --last was
\* not; resume_last / fork_last is --last, the session id is the positional
\* argument and show_all is --all.
C17_PickerLogic ==
    Finalized =>
        /\ Selection.picker = TRUE <=> (cli_args.session_id = None /\ cli_args.last = FALSE)
        /\ Selection.last = cli_args.last
        /\ Selection.session_id = cli_args.session_id
        /\ Selection.show_all = cli_args.all

\* resume 1234 --all: no picker
C17_Witness ==
    /\ cli_pc = "tui"
    /\ cli_args.subcommand = "resume"
    /\ cli_args.session_id = Some("1234")
    /\ cli_args.all
    /\ cli_out.interactive.resume_picker = FALSE
    /\ cli_out.interactive.resume_session_id = Some("1234")

----------------------------------------------------------------------------
(* Claims about exec resume, checked under SpecResumeArgs                   *)

\* the i-th positional of the command line, if there is one
Positional(i) == IF Len(fn_in.positionals) >= i THEN Some(fn_in.positionals[i]) ELSE None

\* C18: for exec resume, with --last and only one positional, that positional
\* is the prompt and the session id is None; otherwise the first positional
\* is the session id and the second the prompt, unchanged.
C18_LastTakesPrompt ==
    fn_pc = "returned" =>
        /\ fn_out.ok
        /\ IF fn_in.last /\ Len(fn_in.positionals) = 1
           THEN /\ fn_out.val.prompt = Some(fn_in.positionals[1])
                /\ fn_out.val.session_id = None
           ELSE /\ fn_out.val.session_id = Positional(1)
                /\ fn_out.val.prompt = Positional(2)

\* exec resume --last 2+2
C18_Witness ==
    /\ fn_pc = "returned"
    /\ fn_in.last
    /\ fn_in.positionals = <<"2+2">>
    /\ fn_out.val.prompt = Some("2+2")
    /\ fn_out.val.session_id = None

----------------------------------------------------------------------------
(* Claims about the mount point parsing, checked under SpecParseMountPoint  *)

\* the lines of the output that mention /Volumes/
MentioningLines == SelectSeq(lines(fn_in), contains_volumes)

\* the fields of a line between tabs
RECURSIVE TabFields(_)
TabFields(line) ==
    IF \A i \in DOMAIN line : line[i] # TAB THEN <<line>>
    ELSE LET i == CHOOSE j \in DOMAIN line : line[j] = TAB /\ \A k \in 1..(j - 1) : line[k] # TAB
         IN <<SubSeq(line, 1, i - 1)>> \o TabFields(SubSeq(line, i + 1, Len(line)))

\* s without the whitespace at its two ends
Trimmed(s) ==
    LET keep == {i \in DOMAIN s : (\E j \in 1..i : ~is_whitespace(s[j]))
                                  /\ (\E j \in i..Len(s) : ~is_whitespace(s[j]))}
    IN SelectSeq([i \in DOMAIN s |-> <<i, s[i]>>], LAMBDA p : p[1] \in keep)

\* the last tab-separated field of a line, trimmed
LastTabField(line) ==
    LET f == TabFields(line) IN [i \in DOMAIN Trimmed(f[Len(f)]) |-> Trimmed(f[Len(f)])[i][2]]

\* the whitespace-separated fields of a line that start with /Volumes/
VolumeFields(line) == SelectSeq(split_whitespace(line), starts_with_volumes)

\* C19: for a tab-delimited line mentioning /Volumes/ the function returns the
\* last tab-separated field, trimmed and with inner spaces kept; for a
\* space-delimited line the first whitespace-separated field starting with
\* /Volumes/; None when no line mentions /Volumes/; and any value it returns
\* begins with /Volumes/.
C19_MountPointParsed ==
    fn_pc = "returned" =>
        /\ fn_out.ok
        /\ MentioningLines = <<>> => fn_out.val = None
        /\ (MentioningLines # <<>> /\ Len(TabFields(MentioningLines[1])) > 1)
               => fn_out.val = Some(LastTabField(MentioningLines[1]))
        /\ (MentioningLines # <<>> /\ Len(TabFields(MentioningLines[1])) = 1
                /\ VolumeFields(MentioningLines[1]) # <<>>)
               => fn_out.val = Some(VolumeFields(MentioningLines[1])[1])
        /\ fn_out.val # None => starts_with_volumes(fn_out.val[1])

----------------------------------------------------------------------------
(* Claims about the prompt handed to the TUI, checked under SpecPrompt      *)

\* the prompt of the command line that counts: the one after resume / fork
\* if there is one, else the root-level one
GivenPrompt ==
    IF cli_args.subcommand \in {"resume", "fork"} /\ cli_args.sub_cli.prompt # None
    THEN cli_args.sub_cli.prompt
    ELSE cli_args.interactive.prompt

RECURSIVE NewlinesOnly(_)
\* s read once from the left: CR LF and a lone CR each become one LF
NewlinesOnly(s) ==
    IF s = <<>> THEN <<>>
    ELSE IF s[1] = CR
    THEN <<LF>> \o NewlinesOnly(SubSeq(s, IF Len(s) >= 2 /\ s[2] = LF THEN 3 ELSE 2, Len(s)))
    ELSE <<s[1]>> \o NewlinesOnly(Tail(s))

\* C20: a prompt given on the command line, at root level or after
\* resume/fork, never reaches the TUI containing a carriage return: every
\* CR LF and every lone CR is replaced by LF, and normalising an already
\* normalised prompt changes nothing.
C20_PromptNormalized ==
    cli_pc = "tui" =>
        /\ (GivenPrompt = None) = (cli_out.interactive.prompt = None)
        /\ GivenPrompt # None =>
              LET p == cli_out.interactive.prompt[1]
              IN /\ \A i \in DOMAIN p : p[i] # CR
                 /\ p = NewlinesOnly(GivenPrompt[1])
                 /\ normalize_prompt(p) = p

\* resume with the prompt CR LF CR, over a root-level prompt
C20_Witness ==
    /\ cli_pc = "tui"
    /\ cli_args.subcommand = "resume"
    /\ cli_args.interactive.prompt = Some(<<"a", CR>>)
    /\ cli_args.sub_cli.prompt = Some(<<CR, LF, CR>>)
    /\ cli_out.interactive.prompt = Some(<<LF, LF>>)

----------------------------------------------------------------------------
(* Claims about the last-message file, checked under SpecLastMessage        *)

\* C21: handle_last_message never aborts: without a last agent message it
\* writes empty content to the output file and emits a warning, with one it
\* writes exactly that message, and a failure to write the file is reported
\* on standard error without an error being propagated and without a panic.
C21_LastMessageNeverAborts ==
    fn_pc = "returned" =>
        /\ fn_out.ok
        /\ (fn_in.last_agent_message = None /\ fn_out.val.write_ok)
               => fn_out.val.file = Some(<<>>)
        /\ fn_in.last_agent_message = None
               <=> (\E i \in DOMAIN fn_out.val.stderr :
                       fn_out.val.stderr[i] = "warning: no last agent message")
        /\ (fn_in.last_agent_message # None /\ fn_out.val.write_ok)
               => fn_out.val.file = fn_in.last_agent_message
        /\ ~fn_out.val.write_ok
               <=> (\E i \in DOMAIN fn_out.val.stderr : fn_out.val.stderr[i] = "write failed")

\* the write failed with no last agent message: both lines on standard error
C21_Witness ==
    /\ fn_pc = "returned"
    /\ fn_in.last_agent_message = None
    /\ fn_in.file = Some(<<"o", "l", "d">>)
    /\ fn_out.ok
    /\ ~fn_out.val.write_ok
    /\ fn_out.val.stderr = <<"write failed", "warning: no last agent message">>

----------------------------------------------------------------------------
(* Claims about the built-in model presets, checked under SpecPresets       *)

DefaultPresets(presets) == {i \in DOMAIN presets : presets[i].is_default}

\* C22: exactly one built-in model preset has is_default set, and
\* builtin_model_presets returns the presets of the static table unchanged
\* and in table order for every auth mode.
C22_OneDefaultPreset ==
    /\ Cardinality(DefaultPresets(PRESETS)) = 1
    /\ fn_out # None =>
          /\ Len(fn_out[1]) = Len(PRESETS)
          /\ \A i \in DOMAIN PRESETS : fn_out[1][i] = PRESETS[i]
          /\ Cardinality(DefaultPresets(fn_out[1])) = 1

\* calls with each auth mode have returned; the default is the first preset
C22_Witness ==
    /\ fn_pc = "initialized"
    /\ {fn_in[i] : i \in DOMAIN fn_in} = AuthModes
    /\ fn_out[1][1].is_default
    /\ fn_out[1][1].id = "gpt-5.2-codex"
    /\ Len(fn_out[1]) > 1

----------------------------------------------------------------------------
(* Claims about the readiness gate, checked under SpecGhostFair             *)

\* the blocking snapshot has ended in one of its four ways, or the
\* cancellation token has fired
SnapshotEndedOrCancelled == g_blocking \in BlockingOutcome \/ g_cancel

\* C23: the ghost-snapshot task calls tool_call_gate.mark_ready with its
\* token exactly once and eventually on every path: snapshot success, git
\* error, not a git repository, panic of the blocking task, and cancellation;
\* once the cancellation token fires the gate is marked ready even if the
\* blocking snapshot never finishes.
C23_GateMarkedReadyOnce ==
    /\ [](g_gate <= 1)
    /\ \A outcome \in BlockingOutcome : (g_blocking = outcome) ~> (g_gate = 1)
    /\ g_cancel ~> (g_gate = 1)
    /\ [](g_gate = 1 => [](g_gate = 1))

\* cancelled while the blocking snapshot is still running: marked ready
C23_Witness ==
    /\ g_cancel
    /\ g_cancelled = Some(TRUE)
    /\ g_blocking = "running"
    /\ g_pc = "end"
    /\ g_gate = 1

----------------------------------------------------------------------------
(* Claims about the order of the external commands, checked under SpecMac   *)

\* the place of a command in the order curl, hdiutil attach, ditto,
\* hdiutil detach, open
CmdRank(c) ==
    CASE c = "curl" -> 1
      [] c = "hdiutil attach" -> 2
      [] c = "ditto" -> 3
      [] c = "hdiutil detach" -> 4
      [] c = "open" -> 5

NoAppFound == find_existing_codex_app_path = NoPath

\* command c was issued before position i and exited successfully
SucceededBefore(c, i) == \E j \in 1..(i - 1) : cmds[j].cmd = c /\ cmds[j].out = "ok"

\* the order of the commands, and what each of them comes after
CommandsInOrder ==
    /\ \A i, j \in DOMAIN cmds : i < j => CmdRank(cmds[i].cmd) <= CmdRank(cmds[j].cmd)
    /\ \A i \in DOMAIN cmds :
         /\ cmds[i].cmd = "hdiutil attach" => SucceededBefore("curl", i)
         /\ cmds[i].cmd = "ditto" =>
               /\ SucceededBefore("hdiutil attach", i)
               /\ mount_point # NoPath
               /\ install_called
         /\ cmds[i].cmd = "open" => (install_result.ok /\ download_result.ok
                                     /\ cmds[i].arg = download_result.val)
    /\ \A i, j \in DOMAIN cmds :
         (cmds[i].cmd = "ditto" /\ cmds[j].cmd = "ditto" /\ cmds[i].arg = cmds[j].arg) => i = j

TempDirFailed == download_result = Err("failed to create temp dir", "", FALSE)

\* C24: in a run where no installed app is found the external commands are
\* issued only in the order curl, hdiutil attach, ditto, hdiutil detach, open:
\* curl exactly once, hdiutil attach only after curl succeeded, ditto only
\* after the attach succeeded and a bundle was located, ditto at most once
\* per candidate directory, open only after the install step returned a path.
C24_CommandOrder ==
    NoAppFound =>
        /\ CommandsInOrder
        /\ CmdCount("curl") <= 1
        /\ mac_pc = "done" => CmdCount("curl") = 1

\* C24 amended: the same, with curl invoked at most once, and exactly once
\* in the runs that got a temporary directory to download into.
C24_CommandOrderAfterTempDir ==
    NoAppFound =>
        /\ CommandsInOrder
        /\ CmdCount("curl") <= 1
        /\ (mac_pc = "done" /\ ~TempDirFailed) => CmdCount("curl") = 1

\* all five commands in one run: ditto fails in /Applications and succeeds
\* in the home directory
C24_Witness ==
    /\ NoAppFound
    /\ mac_pc = "done"
    /\ Len(cmds) = 6
    /\ [i \in 1..6 |-> cmds[i].cmd]
          = <<"curl", "hdiutil attach", "ditto", "ditto", "hdiutil detach", "open">>
    /\ cmds[3].arg # cmds[4].arg

====
